---- MODULE Spec2Model ----
(***************************************************************************)
(* Model of the multi-source data client (src/enhanced_data_client.py), of *)
(* the trade simulation and the backtest loop (src/backtest_engine.py), of *)
(* entry resolution (src/data_client.py), of the web application           *)
(* (src/app.py, src/app_backup.py), of the synthetic generator, of the     *)
(* exit price lookups (src/kite_client.py, src/data_provider.py), of the   *)
(* metrics and charts (src/backtest_engine.py) and of the SmartAPI client  *)
(* (src/smartapi_client.py).                                               *)
(*                                                                         *)
(* Specifications: Spec (sequential calls of the client), ConcSpec         *)
(* (threads), SimSpec (_simulate_trade), EntrySpec                         *)
(* (get_hourly_data_for_entry), BtSpec (run_backtest), AppSpec (the        *)
(* routes), MockSpec (_create_mock_data and _resample_to_hourly over runs  *)
(* of the program), ExitSpec (get_exit_price), MetricsSpec                 *)
(* (calculate_metrics and the charts), CacheSpec (the client and the       *)
(* callers that convert the datetime column of what it returned),          *)
(* SmartSpec (login and get_historical_data of SmartAPIClient).            *)
(*                                                                         *)
(* Strings are sequences of tokens, so that the cache key is built by      *)
(* concatenation as the f-string of get_historical_data builds it.         *)
(* A series is a record [kind, src, ver]: the source that produced it and   *)
(* the revision of the vendor data it holds.                               *)
(***************************************************************************)
EXTENDS Integers, Sequences, FiniteSets, TLC

\* ------------------------------------------------------------------ bounds
\* Daily budgets, scaled down from 1000 / 25 / 2000 so that a run reaches them.
NsepyBudget == 1
AlphaVantageBudget == 1
YfinanceBudget == 1
\* Threads calling the client concurrently (ConcSpec), and calls each makes.
MaxThreads == 2
MaxCallsPerThread == 1

\* Days a daily series may cover (0..MaxDay) and the longest holding period.
MaxDay == 3
MaxHold == 2

\* ------------------------------------------------------------------ inputs
\* Revisions of the data a vendor may hold for one request: two fetches of the
\* same request need not return the same frame.
Revisions == {1, 2}

\* pd.to_datetime on a date string: the day it names.
to_datetime(d) == IF d = "d1" THEN 1 ELSE 2

\* The requests the model issues: two symbols (one with an underscore in it),
\* two intervals, and a date range that ends before it starts.
Requests ==
    { [symbol |-> <<"A">>, from_date |-> "d1", to_date |-> "d2", interval |-> "1d"],
      [symbol |-> <<"A">>, from_date |-> "d1", to_date |-> "d2", interval |-> "1h"],
      [symbol |-> <<"A", "_", "B">>, from_date |-> "d1", to_date |-> "d2", interval |-> "1d"],
      [symbol |-> <<"A">>, from_date |-> "d2", to_date |-> "d1", interval |-> "1d"] }

\* ------------------------------------------------------------------ state
VARIABLES
    cache,            \* self.cache: cache_key -> series
    api_call_counts,  \* self.api_call_counts: source -> calls counted
    cur,              \* the last completed call: request, result, sources called
    prev,             \* the call before it, when it was for the same request
    pc,               \* per thread: where it is in get_historical_data
    loc,              \* per thread: its locals (request, source index, data)
    sim,              \* a call of _simulate_trade: its arguments and its result
    entry,            \* a call of get_hourly_data_for_entry: arguments, result
    bt,               \* a call of run_backtest: its arguments and what it leaves
    app,              \* the web application: its globals, the last request served
    mock,             \* the synthetic generator: the process it runs in, its calls
    exitp,            \* a call of get_exit_price: its arguments and its result
    met,              \* a call of calculate_metrics: the results frame, the summary
    smart             \* a SmartAPIClient: its tokens, and the last call made on it

routerVars == <<cache, api_call_counts>>
histVars == <<cur, prev>>
thrVars == <<pc, loc>>
simVars == <<sim>>
lateVars == <<exitp, met, smart>>
restVars == <<entry, bt, app, mock, lateVars>>
vars == <<cache, api_call_counts, cur, prev, pc, loc, sim, entry, bt, app, mock,
          exitp, met, smart>>

\* Python values handed around by the client, as records of one shape:
\* a non-empty frame, None, an empty frame, a raised exception.
\* mutant: _get_nsepy_data without its conversion (lines 126-127): the Date
\* index of nsepy holds datetime.date objects
datetime_dtypeObject(s) == IF s = "nsepy" THEN "object" ELSE "datetime64"

\* The dtype of the datetime column of the frame a source returns: each one
\* converts it (lines 127, 206, 277) or builds it from pd.date_range (335-339).
datetime_dtype(s) ==
    CASE s = "nsepy" -> "datetime64"
      [] s = "alpha_vantage" -> "datetime64"
      [] s = "yfinance" -> "datetime64"
      [] s = "mock" -> "datetime64"

Frame(s, v) == [kind |-> "frame", src |-> s, ver |-> v, dtype |-> datetime_dtype(s)]
None == [kind |-> "None", src |-> "", ver |-> 0, dtype |-> ""]
EmptyFrame == [kind |-> "empty", src |-> "", ver |-> 0, dtype |-> ""]
Raised == [kind |-> "raise", src |-> "", ver |-> 0, dtype |-> ""]
\* float('inf'), the limit no count reaches
Inf == -1
NoReq == [symbol |-> <<>>, from_date |-> "", to_date |-> "", interval |-> ""]

\* mutant: the synthetic generator is tried first
sourcesMockFirst == <<"mock", "nsepy", "alpha_vantage", "yfinance">>

\* sources, in the order get_historical_data tries them
sources == <<"nsepy", "alpha_vantage", "yfinance", "mock">>

SourceNames == {"nsepy", "alpha_vantage", "yfinance", "mock"}

rate_limits ==
    [s \in SourceNames |->
        CASE s = "nsepy" -> NsepyBudget
          [] s = "alpha_vantage" -> AlphaVantageBudget
          [] s = "yfinance" -> YfinanceBudget
          [] s = "mock" -> Inf]

\* cache_key = f"{symbol}_{from_date}_{to_date}_{interval}"
cache_key(r) ==
    r.symbol \o <<"_">> \o <<r.from_date>> \o <<"_">> \o <<r.to_date>>
             \o <<"_">> \o <<r.interval>>

\* mutant: the budget test is off by one (> for >=)
RateLimitedOffByOne(counts, s) ==
    rate_limits[s] # Inf /\ counts[s] > rate_limits[s]

\* self.api_call_counts[source_name] >= self.rate_limits[source_name]
RateLimited(counts, s) ==
    rate_limits[s] # Inf /\ counts[s] >= rate_limits[s]

Series(s) == {Frame(s, v) : v \in Revisions}

ValidRange(r) == to_datetime(r.from_date) <= to_datetime(r.to_date)

\* The columns of the frame a caller is handed. Every source standardises its
\* frame to these six (the generator builds exactly them, lines 358-365) and
\* the router stores and returns the frame as it got it (lines 71-73): the
\* name of the source goes to the log only.
columns(d) ==
    IF d.kind = "frame"
    THEN {"datetime", "open", "high", "low", "close", "volume"}
    ELSE {}

\* _get_nsepy_data: None when the vendor has nothing or on any error.
NsepyOutcomes(r) == Series("nsepy") \cup {None, Raised}

\* _get_alpha_vantage_data: the frame filtered to [from_date, to_date] (empty
\* when no row falls in the range), None on a rate-limit note or an error.
AlphaVantageOutcomes(r) ==
    (IF ValidRange(r) THEN Series("alpha_vantage") ELSE {}) \cup {None, EmptyFrame, Raised}

\* symbol_formats of _get_yfinance_data, in the order of the list (lines
\* 240-246): NSE, BSE, the symbol as given, NSE with EQ, NSE with BE.
symbol_formats(symbol) ==
    << symbol \o <<".NS">>, symbol \o <<".BO">>, symbol,
       symbol \o <<"-EQ.NS">>, symbol \o <<"-BE.NS">> >>

\* What yf.Ticker(f).history(...) hands back for each of the five spellings
\* when spelling k is the first one listed (k = 6: none is) and holds
\* revision v: before k an exception and an empty frame in turn, after k the
\* other listings, which hold other data.
History(k, v) ==
    [i \in 1..5 |->
        IF i < k THEN (IF i % 2 = 1 THEN Raised ELSE EmptyFrame)
        ELSE IF i = k THEN Frame("yfinance", v)
        ELSE Frame("yfinance", 3 - v)]

\* the first spelling listed: the first of the list, the fourth, none
Histories == {History(k, v) : k \in {1, 4, 6}, v \in Revisions}

\* The for loop of _get_yfinance_data from spelling i on (lines 248-284): the
\* frame returned and the spellings asked for, each with what came back.  An
\* exception and an empty frame both go on to the next spelling.
RECURSIVE yfinance_loop(_, _, _, _)
yfinance_loop(fmts, history, i, log) ==
    IF i > Len(fmts)
    THEN [ret |-> None, formats |-> log]
    ELSE LET df == history[i]
             l == Append(log, [fmt |-> fmts[i], kind |-> df.kind, ver |-> df.ver])
         IN IF df.kind = "frame"
            THEN [ret |-> df, formats |-> l]
            ELSE yfinance_loop(fmts, history, i + 1, l)

\* mutant: the try is around the loop, so that a spelling that raises ends it
RECURSIVE yfinance_loopStopOnError(_, _, _, _)
yfinance_loopStopOnError(fmts, history, i, log) ==
    IF i > Len(fmts)
    THEN [ret |-> None, formats |-> log]
    ELSE LET df == history[i]
             l == Append(log, [fmt |-> fmts[i], kind |-> df.kind, ver |-> df.ver])
         IN IF df.kind = "frame"
            THEN [ret |-> df, formats |-> l]
            ELSE IF df.kind = "raise"
            THEN [ret |-> None, formats |-> l]
            ELSE yfinance_loopStopOnError(fmts, history, i + 1, l)

get_yfinance_dataStopOnError(symbol, history) ==
    yfinance_loopStopOnError(symbol_formats(symbol), history, 1, <<>>)

\* _get_yfinance_data (lines 232-288)
get_yfinance_data(symbol, history) ==
    yfinance_loop(symbol_formats(symbol), history, 1, <<>>)

YfinanceCalls(r) == {get_yfinance_data(r.symbol, h) : h \in Histories}

\* _get_yfinance_data: the first spelling with a non-empty frame, else None.
YfinanceOutcomes(r) == {c.ret : c \in YfinanceCalls(r)} \cup {Raised}

\* _create_mock_data: one candle per step of date_range(start, end), seeded by
\* the symbol; an empty frame when the range is empty or on any error.
MockOutcomes(r) ==
    IF ValidRange(r) THEN {Frame("mock", 1)} ELSE {EmptyFrame}

SourceOutcomes(s, r) ==
    CASE s = "nsepy" -> NsepyOutcomes(r)
      [] s = "alpha_vantage" -> AlphaVantageOutcomes(r)
      [] s = "yfinance" -> YfinanceOutcomes(r)
      [] s = "mock" -> MockOutcomes(r)

\* A call of a source by the router: what it returns and, for Yahoo Finance,
\* the spellings it asked the vendor for.
SourceCalls(s, r) ==
    IF s = "yfinance"
    THEN YfinanceCalls(r) \cup {[ret |-> Raised, formats |-> <<>>]}
    ELSE {[ret |-> d, formats |-> <<>>] : d \in SourceOutcomes(s, r)}

\* mutant: the test of data forgets the empty frame
IsDataNotNone(d) == d.kind \in {"frame", "empty"}

\* data is not None and not data.empty (an exception skips the test)
IsData(d) == d.kind = "frame"

\* mutant: a source that fails ends the loop (no continue to the next one)
RECURSIVE TrySourcesStopOnFailure(_, _, _, _)
TrySourcesStopOnFailure(i, counts, r, tried) ==
    IF i > Len(sources)
    THEN {[ret |-> None, tried |-> tried, served |-> ""]}
    ELSE LET s == sources[i] IN
         IF RateLimited(counts, s)
         THEN TrySourcesStopOnFailure(i + 1, counts, r, tried)
         ELSE { LET d == c.ret
                    t == Append(tried, [src |-> s, kind |-> d.kind,
                                        formats |-> c.formats])
                IN IF IsData(d)
                   THEN [ret |-> d, tried |-> t, served |-> s]
                   ELSE [ret |-> None, tried |-> t, served |-> ""]
              : c \in SourceCalls(s, r) }

\* The for loop over sources from index i on (lines 60-80): every way it can
\* end, as the result returned, the sources called (each with what it handed
\* back) and the source that served.
RECURSIVE TrySources(_, _, _, _)
TrySources(i, counts, r, tried) ==
    IF i > Len(sources)
    THEN {[ret |-> None, tried |-> tried, served |-> ""]}
    ELSE LET s == sources[i] IN
         IF RateLimited(counts, s)
         THEN TrySources(i + 1, counts, r, tried)
         ELSE UNION { LET d == c.ret
                          t == Append(tried, [src |-> s, kind |-> d.kind,
                                              formats |-> c.formats])
                      IN IF IsData(d)
                         THEN {[ret |-> d, tried |-> t, served |-> s]}
                         ELSE TrySources(i + 1, counts, r, t)
                    : c \in SourceCalls(s, r) }

NoCall == [req |-> NoReq, ret |-> None, tried |-> <<>>, served |-> "",
           before |-> [s \in SourceNames |-> 0], found |-> <<>>,
           consumed |-> FALSE]

\* what a completed call leaves in the history: its request, its result, and
\* the counts and the cache it found
CallRecord(r, res) ==
    [req |-> r, ret |-> res.ret, tried |-> res.tried, served |-> res.served,
     before |-> api_call_counts, found |-> cache, consumed |-> FALSE]

\* of the call c made just before a call for r: whether it was for the same
\* request and, if so, the counts it found, whether it returned a series and
\* whether _simulate_trade was handed that series
Earlier(c, r) ==
    IF c.req = r
    THEN [same |-> TRUE, before |-> c.before, ok |-> c.ret.kind = "frame",
          consumed |-> c.consumed]
    ELSE [same |-> FALSE, before |-> [s \in SourceNames |-> 0], ok |-> FALSE,
          consumed |-> FALSE]

\* mutant: a hit is counted against the source the cached series came from
CacheHitCounted(r) ==
    /\ cache_key(r) \in DOMAIN cache
    /\ cur' = CallRecord(r, [ret |-> cache[cache_key(r)], tried |-> <<>>, served |-> ""])
    /\ prev' = Earlier(cur, r)
    /\ api_call_counts' = [api_call_counts EXCEPT ![cache[cache_key(r)].src] = @ + 1]
    /\ UNCHANGED <<cache, thrVars, simVars, restVars>>

\* get_historical_data, key in cache (lines 47-50)
CacheHit(r) ==
    /\ cache_key(r) \in DOMAIN cache
    /\ cur' = CallRecord(r, [ret |-> cache[cache_key(r)], tried |-> <<>>, served |-> ""])
    /\ prev' = Earlier(cur, r)
    /\ UNCHANGED <<routerVars, thrVars, simVars, restVars>>

\* mutant: the result is counted but not put in the cache
StoreResultNoCache(r, res) ==
    IF res.served # ""
    THEN /\ api_call_counts' = [api_call_counts EXCEPT ![res.served] = @ + 1]
         /\ UNCHANGED cache
    ELSE UNCHANGED routerVars

\* mutant: every source called is counted, not only the one that served
StoreResultCountTried(r, res) ==
    IF res.served # ""
    THEN /\ api_call_counts' =
              [s \in SourceNames |->
                 api_call_counts[s]
                 + Cardinality({i \in DOMAIN res.tried : res.tried[i].src = s})]
         /\ cache' = [k \in DOMAIN cache \cup {cache_key(r)} |->
                        IF k = cache_key(r) THEN res.ret ELSE cache[k]]
    ELSE UNCHANGED routerVars

\* mutant: a request no source could serve is cached too, as None
StoreResultCacheFailure(r, res) ==
    IF res.served # ""
    THEN /\ api_call_counts' = [api_call_counts EXCEPT ![res.served] = @ + 1]
         /\ cache' = [k \in DOMAIN cache \cup {cache_key(r)} |->
                        IF k = cache_key(r) THEN res.ret ELSE cache[k]]
    ELSE /\ UNCHANGED api_call_counts
         /\ cache' = [k \in DOMAIN cache \cup {cache_key(r)} |->
                        IF k = cache_key(r) THEN None ELSE cache[k]]

\* the state a completed pass over the sources leaves (lines 70-71)
StoreResult(r, res) ==
    IF res.served # ""
    THEN /\ api_call_counts' = [api_call_counts EXCEPT ![res.served] = @ + 1]
         /\ cache' = [k \in DOMAIN cache \cup {cache_key(r)} |->
                        IF k = cache_key(r) THEN res.ret ELSE cache[k]]
    ELSE UNCHANGED routerVars

\* get_historical_data, key not in cache (lines 52-80)
CacheMiss(r) ==
    /\ cache_key(r) \notin DOMAIN cache
    /\ \E res \in TrySources(1, api_call_counts, r, <<>>) :
         /\ StoreResult(r, res)
         /\ cur' = CallRecord(r, res)
    /\ prev' = Earlier(cur, r)
    /\ UNCHANGED <<thrVars, simVars, restVars>>

get_historical_data(r) == CacheHit(r) \/ CacheMiss(r)

\* pd.to_datetime on a column: a column of objects becomes datetime64, a
\* datetime64 column is returned as it is
pd_to_datetime(dtype) == IF dtype = "object" THEN "datetime64" ELSE dtype

\* _simulate_trade on the series the last call returned, up to its line 121,
\* daily_data['datetime'] = pd.to_datetime(daily_data['datetime']).  The
\* router returns the cached frame itself (lines 50 and 73: no copy) and
\* get_daily_data_for_exit hands it on (lines 408-424), so the assignment
\* writes to the entry of the cache; trade_data (line 122) is a copy.
AssignDatetime ==
    /\ cur.ret.kind = "frame"
    /\ ~cur.consumed
    /\ cache_key(cur.req) \in DOMAIN cache
    /\ cache' = [cache EXCEPT ![cache_key(cur.req)] =
                     [@ EXCEPT !.dtype = pd_to_datetime(@)]]
    /\ cur' = [cur EXCEPT !.consumed = TRUE]
    /\ UNCHANGED <<api_call_counts, prev, thrVars, simVars, restVars>>

\* ------------------------------------------------- concurrent callers
\* get_historical_data holds no lock: threads calling it on one client
\* interleave between its statements.
Threads == 1..MaxThreads

NoLocals == [req |-> NoReq, i |-> 0, data |-> None, ret |-> None, tmp |-> 0,
             called |-> <<>>, peers |-> {}, ncalls |-> 0]

InFlight(t) == pc[t] \notin {"idle", "done"}

\* a thread enters get_historical_data(r)
T_Call(t, r) ==
    /\ pc[t] = "idle"
    /\ loc[t].ncalls < MaxCallsPerThread
    /\ loc' = [loc EXCEPT ![t] = [req |-> r, i |-> 1, data |-> None, ret |-> None,
                                  tmp |-> 0, called |-> <<>>,
                                  peers |-> {u \in Threads : InFlight(u)},
                                  ncalls |-> loc[t].ncalls + 1]]
    /\ pc' = [pc EXCEPT ![t] = "check_cache"]
    /\ UNCHANGED <<routerVars, histVars, simVars, restVars>>

\* lines 47-50: if cache_key in self.cache: return self.cache[cache_key]
T_CheckCache(t) ==
    /\ pc[t] = "check_cache"
    /\ IF cache_key(loc[t].req) \in DOMAIN cache
       THEN /\ loc' = [loc EXCEPT ![t].ret = cache[cache_key(loc[t].req)]]
            /\ pc' = [pc EXCEPT ![t] = "done"]
       ELSE /\ pc' = [pc EXCEPT ![t] = "check_limit"]
            /\ UNCHANGED loc
    /\ UNCHANGED <<routerVars, histVars, simVars, restVars>>

\* lines 60-63 and 79-80: next source, skipped when its count is at its limit;
\* None when the sources are used up
T_CheckLimit(t) ==
    /\ pc[t] = "check_limit"
    /\ IF loc[t].i > Len(sources)
       THEN /\ loc' = [loc EXCEPT ![t].ret = None]
            /\ pc' = [pc EXCEPT ![t] = "done"]
       ELSE IF RateLimited(api_call_counts, sources[loc[t].i])
            THEN /\ loc' = [loc EXCEPT ![t].i = @ + 1]
                 /\ UNCHANGED pc
            ELSE /\ pc' = [pc EXCEPT ![t] = "call_source"]
                 /\ UNCHANGED loc
    /\ UNCHANGED <<routerVars, histVars, simVars, restVars>>

\* lines 67-69 and 75-77: data = source_func(...); the test of data
T_CallSource(t) ==
    /\ pc[t] = "call_source"
    /\ \E d \in SourceOutcomes(sources[loc[t].i], loc[t].req) :
         IF IsData(d)
         THEN /\ loc' = [loc EXCEPT ![t].data = d,
                                    ![t].called = Append(@, sources[loc[t].i])]
              /\ pc' = [pc EXCEPT ![t] = "count_read"]
         ELSE /\ loc' = [loc EXCEPT ![t].i = @ + 1,
                                    ![t].called = Append(@, sources[loc[t].i])]
              /\ pc' = [pc EXCEPT ![t] = "check_limit"]
    /\ UNCHANGED <<routerVars, histVars, simVars, restVars>>

\* line 70, self.api_call_counts[source_name] += 1: the read of the count
T_CountRead(t) ==
    /\ pc[t] = "count_read"
    /\ loc' = [loc EXCEPT ![t].tmp = api_call_counts[sources[loc[t].i]]]
    /\ pc' = [pc EXCEPT ![t] = "count_write"]
    /\ UNCHANGED <<routerVars, histVars, simVars, restVars>>

\* line 70: the store of the count read, plus one
T_CountWrite(t) ==
    /\ pc[t] = "count_write"
    /\ api_call_counts' = [api_call_counts EXCEPT ![sources[loc[t].i]] = loc[t].tmp + 1]
    /\ pc' = [pc EXCEPT ![t] = "store"]
    /\ UNCHANGED <<cache, loc, histVars, simVars, restVars>>

\* lines 71-73: self.cache[cache_key] = data; return data
T_Store(t) ==
    /\ pc[t] = "store"
    /\ cache' = [k \in DOMAIN cache \cup {cache_key(loc[t].req)} |->
                   IF k = cache_key(loc[t].req) THEN loc[t].data ELSE cache[k]]
    /\ loc' = [loc EXCEPT ![t].ret = loc[t].data]
    /\ pc' = [pc EXCEPT ![t] = "done"]
    /\ UNCHANGED <<api_call_counts, histVars, simVars, restVars>>

\* the caller takes the result; the thread is free for its next call
T_Return(t) ==
    /\ pc[t] = "done"
    /\ pc' = [pc EXCEPT ![t] = "idle"]
    /\ UNCHANGED <<routerVars, histVars, loc, simVars, restVars>>

\* ------------------------------------------------------ trade simulation
\* Prices are whole numbers; a price derived from a percentage (the stop, the
\* target, the exit price, the pnl) is kept in hundredths, so that
\* entry_price * (1 - pct / 100) is the integer entry_price * (100 - pct).

\* run_backtest's defaults for stop_loss_pct and target_profit_pct
StopLossPct == 5
TargetProfitPct == 10

EntryPrices == {0, 100}

\* A daily candle, without its day: low, high, close.  Around an entry price
\* of 100 (stop 95, target 110): a quiet day, a day that touches the stop, one
\* that touches the target, one that does both, and one that gaps below.
Shapes ==
    { [low |-> 98, high |-> 105, close |-> 101],
      [low |-> 95, high |-> 104, close |-> 97],
      [low |-> 99, high |-> 110, close |-> 108],
      [low |-> 94, high |-> 112, close |-> 100],
      [low |-> 90, high |-> 93, close |-> 91] }

Days == 0..MaxDay

\* Python values of the two date types the simulation mixes: a pandas
\* Timestamp (what pd.to_datetime puts in the datetime column, line 121) and a
\* datetime.date (what entry_datetime.date() returns, lines 122 and 130).
Timestamp(d) == [type |-> "Timestamp", day |-> d]
date(d) == [type |-> "date", day |-> d]

\* the rows of a frame sorted by datetime: one candle on each day of ds
RECURSIVE RowsOn(_, _)
RowsOn(ds, shape) ==
    IF ds = {} THEN <<>>
    ELSE LET d == CHOOSE x \in ds : \A y \in ds : x <= y IN
         <<[datetime |-> Timestamp(d), low |-> shape[d].low, high |-> shape[d].high,
            close |-> shape[d].close]>> \o RowsOn(ds \ {d}, shape)

DailySeries == UNION {{RowsOn(ds, sh) : sh \in [ds -> Shapes]} : ds \in SUBSET Days}

\* What the installed pandas does with  Series[datetime64] >= datetime.date :
\* older releases coerce the date to a Timestamp, newer ones raise TypeError.
PandasBuilds == {"coerces", "raises"}

SimInputs ==
    [symbol : {<<"A">>}, entry_price : EntryPrices, entry_date : 0..1,
     daily_data : DailySeries, stop_loss_pct : {StopLossPct},
     target_profit_pct : {TargetProfitPct}, max_holding_days : 0..MaxHold,
     pandas : PandasBuilds]

\* A call with nothing but the holding period chosen (the stop and the target
\* keep the defaults of run_backtest, lines 23-24) on a series that stays at
\* the entry price, long enough to reach the holding period.
FlatDay == [low |-> 100, high |-> 100, close |-> 100]
FlatSeries == {RowsOn(0..k, [d \in 0..k |-> FlatDay]) : k \in 5..6}
FlatInputs ==
    [symbol : {<<"A">>}, entry_price : {100}, entry_date : {0},
     daily_data : FlatSeries, stop_loss_pct : {StopLossPct},
     target_profit_pct : {TargetProfitPct}, max_holding_days : {5},
     pandas : PandasBuilds]

\* lines 117-118, in hundredths
stop_loss_price(a) == a.entry_price * (100 - a.stop_loss_pct)
target_price(a) == a.entry_price * (100 + a.target_profit_pct)

\* line 122, daily_data['datetime'] >= entry_datetime.date(): the rows from the
\* entry date on where pandas coerces the date; no value where it raises
trade_data(a) ==
    IF a.pandas = "coerces"
    THEN [ok |-> TRUE,
          rows |-> SelectSeq(a.daily_data,
                             LAMBDA row : row.datetime.day >= date(a.entry_date).day)]
    ELSE [ok |-> FALSE, rows |-> <<>>]

\* x - y on dates: a Timestamp is a datetime, and datetime subtraction takes a
\* datetime or a timedelta; with a datetime.date on the right it raises TypeError
Minus(x, y) ==
    IF x.type = y.type
    THEN [ok |-> TRUE, days |-> x.day - y.day]
    ELSE [ok |-> FALSE, days |-> 0]

\* line 130: (current_date - entry_datetime.date()).days
days_held(row, a) == Minus(row.datetime, date(a.entry_date))

\* lines 132-148: the exit tests on one row once days_held is known, in the
\* order of the code; the exit price and reason of the first that holds, no
\* reason when none does
ExitCheck(row, held, a) ==
    IF held >= a.max_holding_days
    THEN [exit_price |-> row.close * 100,
          exit_reason |-> <<"Max holding period", a.max_holding_days>>]
    ELSE IF row.low * 100 <= stop_loss_price(a)
    THEN [exit_price |-> stop_loss_price(a),
          exit_reason |-> <<"Stop Loss", a.stop_loss_pct>>]
    ELSE IF row.high * 100 >= target_price(a)
    THEN [exit_price |-> target_price(a),
          exit_reason |-> <<"Target Profit", a.target_profit_pct>>]
    ELSE [exit_price |-> 0, exit_reason |-> <<"", 0>>]

\* lines 128-152: the for loop from row i on, with its else clause; an
\* exception raised in the body leaves the loop
RECURSIVE Walk(_, _, _)
Walk(rows, i, a) ==
    LET h == days_held(rows[i], a)
        x == ExitCheck(rows[i], h.days, a)
    IN  IF ~h.ok
        THEN [raised |-> TRUE, exit_price |-> 0, exit_reason |-> <<"", 0>>,
              days_held |-> 0]
        ELSE IF x.exit_reason[1] # ""
        THEN [raised |-> FALSE, exit_price |-> x.exit_price,
              exit_reason |-> x.exit_reason, days_held |-> h.days]
        ELSE IF i < Len(rows)
        THEN Walk(rows, i + 1, a)
        ELSE [raised |-> FALSE, exit_price |-> rows[Len(rows)].close * 100,
              exit_reason |-> <<"End of data", h.days>>, days_held |-> h.days]

NoResult == [status |-> "None"]
Pending == [status |-> "pending"]

\* _simulate_trade (lines 115-176): None when no row is left and when
\* anything in the body raises (lines 174-176), else the trade
simulate_trade(a) ==
    LET td == trade_data(a) IN
    IF ~td.ok \/ td.rows = <<>>
    THEN NoResult
    ELSE LET w == Walk(td.rows, 1, a)
             pnl == w.exit_price - a.entry_price * 100
         IN  IF w.raised
             THEN NoResult
             ELSE [status |-> "trade", symbol |-> a.symbol,
                   entry_price |-> a.entry_price * 100,
                   exit_price |-> w.exit_price, exit_reason |-> w.exit_reason,
                   days_held |-> w.days_held, pnl |-> pnl,
                   pnl_pct |-> [num |-> pnl * 100, den |-> a.entry_price * 100],
                   is_winner |-> pnl > 0,
                   stop_loss_price |-> stop_loss_price(a),
                   target_price |-> target_price(a)]

\* one call of _simulate_trade on the arguments drawn at the start
SimulateTrade ==
    /\ sim.out = Pending
    /\ sim' = [sim EXCEPT !.out = simulate_trade(sim.in)]
    /\ UNCHANGED <<routerVars, histVars, thrVars, restVars>>

\* ---------------------------------------------------------- entry price
\* DataClient.get_hourly_data_for_entry (src/data_client.py 121-176; the
\* methods of EnhancedDataClient, lines 375-406, and SmartAPIClient, lines
\* 349-404, are the same statements).  Time is in minutes; hourly candles sit
\* on the hour.
MaxHour == 2
Hours == 0..MaxHour
Minutes == {0, 30}

\* a timestamp, and entry_datetime.replace(minute=0, second=0, microsecond=0)
Stamp(h, m) == [hour |-> h, minute |-> m]
replace_minute0(ts) == [ts EXCEPT !.minute = 0]
AsMinutes(ts) == ts.hour * 60 + ts.minute

\* an hourly candle of the fetched frame; the open and the close tell the
\* candles of a frame apart
HourlyOpens == {100, 104}
HourlyCandle(h, o) == [datetime |-> Stamp(h, 0), open |-> o + h, close |-> o + h + 1]

\* the rows of a frame sorted by datetime (line 95): one candle on each hour of hs
RECURSIVE HourlyRows(_, _)
HourlyRows(hs, o) ==
    IF hs = {} THEN <<>>
    ELSE LET h == CHOOSE x \in hs : \A y \in hs : x <= y IN
         <<HourlyCandle(h, o)>> \o HourlyRows(hs \ {h}, o)

\* What get_historical_data hands back (line 140): None, or a frame, possibly
\* empty, whose datetime column is timezone-naive (the mock frame) or
\* timezone-aware (what yfinance returns for an exchange-listed ticker).
HourlyFrames ==
    {[kind |-> "None", tz |-> "naive", rows |-> <<>>]} \cup
    {[kind |-> "frame", tz |-> z, rows |-> HourlyRows(hs, o)] :
        z \in {"naive", "aware"}, hs \in SUBSET Hours, o \in HourlyOpens}

EntryInputs ==
    [symbol : {<<"A">>}, entry_datetime : {Stamp(h, m) : h \in Hours, m \in Minutes},
     df : HourlyFrames]

\* line 155 with <, the candles strictly before the entry hour
available_candlesStrict(df, entry_time) ==
    SelectSeq(df.rows, LAMBDA c : AsMinutes(c.datetime) < AsMinutes(entry_time))

\* line 155, df[df['datetime'] <= entry_time]
available_candles(df, entry_time) ==
    SelectSeq(df.rows, LAMBDA c : AsMinutes(c.datetime) <= AsMinutes(entry_time))

\* get_hourly_data_for_entry (lines 134-176): None when the fetch gave nothing
\* (line 147) and when the comparison of line 155 raises (a timezone-aware
\* column against the naive entry time; lines 174-176)
get_hourly_data_for_entry(a) ==
    IF a.df.kind = "None" \/ a.df.rows = <<>>
    THEN NoResult
    ELSE IF a.df.tz = "aware"
    THEN NoResult
    ELSE LET entry_time == replace_minute0(a.entry_datetime)
             avail == available_candles(a.df, entry_time)
             candle == IF avail = <<>> THEN a.df.rows[Len(a.df.rows)]
                       ELSE avail[Len(avail)]
         IN  [status |-> "entry", entry_price |-> candle.open,
              entry_candle_time |-> entry_time]

NoEntry == [in |-> [symbol |-> <<>>, entry_datetime |-> Stamp(0, 0),
                    df |-> [kind |-> "None", tz |-> "naive", rows |-> <<>>]],
            out |-> NoResult]

\* one call of get_hourly_data_for_entry on the arguments drawn at the start
GetHourlyDataForEntry ==
    /\ entry.out = Pending
    /\ entry' = [entry EXCEPT !.out = get_hourly_data_for_entry(entry.in)]
    /\ UNCHANGED <<routerVars, histVars, thrVars, simVars, bt, app, mock, lateVars>>

\* ----------------------------------------------------------- run_backtest
\* BacktestEngine.run_backtest (src/backtest_engine.py 23-107) over a frame of
\* trades, with what the data client returns for each of them.
MaxSignals == 2
DefaultMaxHoldingDays == 10

\* the hourly frames a trade's entry fetch can return: nothing, or one candle
HourlyAnswers ==
    {[kind |-> "None", tz |-> "naive", rows |-> <<>>],
     [kind |-> "frame", tz |-> "naive", rows |-> HourlyRows({0}, 100)]}

\* the daily frames a trade's exit fetch can return: None, an empty frame, a
\* frame with a candle on the entry day, a frame that ends the day before
QuietDay == [low |-> 98, high |-> 105, close |-> 101]
DailyAnswers ==
    {[kind |-> "None", rows |-> <<>>],
     [kind |-> "frame", rows |-> <<>>],
     [kind |-> "frame", rows |-> RowsOn({1}, [d \in {1} |-> QuietDay])],
     [kind |-> "frame", rows |-> RowsOn({0}, [d \in {0} |-> QuietDay])]}

\* a row of trades_df, with the answers of the data client for it
Trades ==
    [stock_name : {<<"A">>, <<"B">>},
     entry_datetime : {[day |-> 1, hour |-> 0, minute |-> 30]},
     hourly : HourlyAnswers, daily : DailyAnswers]

SeqsUpTo(S, n) == UNION {[1..k -> S] : k \in 0..n}

\* trades_df: its rows, and whether it has the entry_datetime column the loop
\* reads (the docstring of run_backtest names stock_name, entry_date and
\* entry_time only)
BtInputs ==
    [rows : SeqsUpTo(Trades, MaxSignals), has_entry_datetime : BOOLEAN,
     pandas : PandasBuilds]

\* the arguments run_backtest hands to _simulate_trade (lines 77-85)
SimArgs(trade, entry_price, pandas) ==
    [symbol |-> trade.stock_name, entry_price |-> entry_price,
     entry_date |-> trade.entry_datetime.day, daily_data |-> trade.daily.rows,
     stop_loss_pct |-> StopLossPct, target_profit_pct |-> TargetProfitPct,
     max_holding_days |-> DefaultMaxHoldingDays, pandas |-> pandas]

\* whether _simulate_trade logs an error (line 175): something in its body raised
simulate_raised(a) ==
    LET td == trade_data(a) IN
    ~td.ok \/ (td.rows # <<>> /\ Walk(td.rows, 1, a).raised)

LogRecord(level, line, symbol) == [level |-> level, line |-> line, symbol |-> symbol]

\* the body of the loop for one row (lines 45-99): the outcome appended to
\* results, if any, and the records the engine's logger gets at WARNING or above
process_trade(trade, df) ==
    IF ~df.has_entry_datetime
    THEN [result |-> NoResult,
          log |-> <<LogRecord("ERROR", 97, trade.stock_name)>>]
    ELSE LET entry_data ==
                 get_hourly_data_for_entry(
                     [symbol |-> trade.stock_name,
                      entry_datetime |-> Stamp(trade.entry_datetime.hour,
                                               trade.entry_datetime.minute),
                      df |-> trade.hourly])
         IN  IF entry_data = NoResult
             THEN [result |-> NoResult,
                   log |-> <<LogRecord("WARNING", 58, trade.stock_name)>>]
             ELSE IF trade.daily.kind = "None" \/ trade.daily.rows = <<>>
             THEN [result |-> NoResult,
                   log |-> <<LogRecord("WARNING", 72, trade.stock_name)>>]
             ELSE LET a == SimArgs(trade, entry_data.entry_price, df.pandas)
                      trade_result == simulate_trade(a)
                  IN  [result |-> trade_result,
                       log |-> IF simulate_raised(a)
                               THEN <<LogRecord("ERROR", 175, trade.stock_name)>>
                               ELSE <<>>]

NoRunOut == [results |-> <<>>, successful_trades |-> 0, failed_trades |-> 0,
             log |-> <<>>, processed |-> <<>>]

\* the loop with break in place of continue: it ends at the first failed trade
RECURSIVE run_loopStopOnFailure(_, _, _)
run_loopStopOnFailure(df, i, st) ==
    IF i > Len(df.rows) THEN st
    ELSE LET p == process_trade(df.rows[i], df) IN
         IF p.result # NoResult
         THEN run_loopStopOnFailure(df, i + 1,
                  [st EXCEPT !.results = Append(@, p.result),
                             !.successful_trades = @ + 1,
                             !.log = @ \o p.log, !.processed = Append(@, i)])
         ELSE [st EXCEPT !.failed_trades = @ + 1, !.log = @ \o p.log,
                         !.processed = Append(@, i)]

\* mutant: the except branch of the loop does not count the trade as failed
RECURSIVE run_loopUncountedError(_, _, _)
run_loopUncountedError(df, i, st) ==
    IF i > Len(df.rows) THEN st
    ELSE LET p == process_trade(df.rows[i], df) IN
         IF p.result # NoResult
         THEN run_loopUncountedError(df, i + 1,
                  [st EXCEPT !.results = Append(@, p.result),
                             !.successful_trades = @ + 1,
                             !.log = @ \o p.log, !.processed = Append(@, i)])
         ELSE run_loopUncountedError(df, i + 1,
                  [st EXCEPT !.failed_trades =
                                 IF p.log # <<>> /\ p.log[1].line = 97
                                 THEN @ ELSE @ + 1,
                             !.log = @ \o p.log, !.processed = Append(@, i)])

\* the loop of lines 44-99 from row i on
RECURSIVE run_loop(_, _, _)
run_loop(df, i, st) ==
    IF i > Len(df.rows) THEN st
    ELSE LET p == process_trade(df.rows[i], df) IN
         IF p.result # NoResult
         THEN run_loop(df, i + 1,
                  [st EXCEPT !.results = Append(@, p.result),
                             !.successful_trades = @ + 1,
                             !.log = @ \o p.log, !.processed = Append(@, i)])
         ELSE run_loop(df, i + 1,
                  [st EXCEPT !.failed_trades = @ + 1, !.log = @ \o p.log,
                             !.processed = Append(@, i)])

\* run_backtest (lines 40-107): what the loop leaves; the frame returned is
\* built from results (lines 103-107)
run_backtest(df) == [status |-> "returned"] @@ run_loop(df, 1, NoRunOut)

NoRun == [in |-> [rows |-> <<>>, has_entry_datetime |-> TRUE, pandas |-> "coerces"],
          out |-> NoResult]

\* one call of run_backtest on the frame drawn at the start
RunBacktest ==
    /\ bt.out = Pending
    /\ bt' = [bt EXCEPT !.out = run_backtest(bt.in)]
    /\ UNCHANGED <<routerVars, histVars, thrVars, simVars, entry, app, mock, lateVars>>

\* --------------------------------------------------------------- metrics
\* BacktestEngine.calculate_metrics (src/backtest_engine.py 178-244) over a
\* frame of results.  Money is in hundredths, percentages in hundredths of a
\* percent, avg_holding_days in tenths: the places round() keeps.
MaxTrades == 3

\* a row of the results frame, as _simulate_trade builds it (lines 155-172);
\* the prices below make pnl_pct a whole number of hundredths
Outcome(entry_price, exit_price, exit_reason, days) ==
    LET pnl == exit_price - entry_price IN
    [entry_price |-> entry_price, exit_price |-> exit_price,
     exit_reason |-> exit_reason, days_held |-> days, pnl |-> pnl,
     pnl_pct |-> (pnl * 10000) \div entry_price, is_winner |-> pnl > 0]

\* trades entered at 100.00 or 200.00: one that reaches the target (+10%), one
\* stopped (-5%), one held to the end of the period (+3%), and two that end
\* with the data at the entry price
EntryPriceLevels == {10000, 20000}
Outcomes ==
    UNION { { Outcome(p, p + p \div 10, <<"Target Profit", TargetProfitPct>>, 1),
              Outcome(p, p - p \div 20, <<"Stop Loss", StopLossPct>>, 1),
              Outcome(p, p + (3 * p) \div 100,
                      <<"Max holding period", DefaultMaxHoldingDays>>,
                      DefaultMaxHoldingDays),
              Outcome(p, p, <<"End of data", 2>>, 2),
              Outcome(p, p, <<"End of data", 3>>, 3) } : p \in EntryPriceLevels }

ResultFrames == SeqsUpTo(Outcomes, MaxTrades)

\* Python's abs, and round(num / den) to the nearest unit, halves to the even one
abs(x) == IF x < 0 THEN 0 - x ELSE x
round(num, den) ==
    LET n == IF den > 0 THEN num ELSE 0 - num
        d == abs(den)
        q == n \div d
        r == n % d
    IN  IF 2 * r < d THEN q
        ELSE IF 2 * r > d THEN q + 1
        ELSE IF q % 2 = 0 THEN q ELSE q + 1

\* Series.sum, .max and .min of a column, and of a series of numbers
RECURSIVE sum(_, _)
sum(rows, col) == IF rows = <<>> THEN 0 ELSE rows[1][col] + sum(Tail(rows), col)
max(s) == CHOOSE x \in {s[i] : i \in DOMAIN s} : \A i \in DOMAIN s : s[i] <= x
min(s) == CHOOSE x \in {s[i] : i \in DOMAIN s} : \A i \in DOMAIN s : x <= s[i]
column(rows, col) == [i \in DOMAIN rows |-> rows[i][col]]

\* results_df['pnl'].cumsum() (line 209)
cumsum(rows) == [i \in DOMAIN rows |-> sum(SubSeq(rows, 1, i), "pnl")]

\* mutant: the maximum of the whole series in place of the expanding one
running_maxWhole(cumulative_pnl) ==
    [i \in DOMAIN cumulative_pnl |-> max(cumulative_pnl)]

\* cumulative_pnl.expanding().max() (line 210)
running_max(cumulative_pnl) ==
    [i \in DOMAIN cumulative_pnl |-> max(SubSeq(cumulative_pnl, 1, i))]

\* results_df['exit_reason'].value_counts().to_dict() (line 221): a count for
\* each distinct string of the column
value_counts(rows) ==
    [k \in {rows[i].exit_reason : i \in DOMAIN rows} |->
        Cardinality({i \in DOMAIN rows : rows[i].exit_reason = k})]

\* the dict of lines 223-240
summary(results_df) ==
    LET total_trades == Len(results_df)
        winning == SelectSeq(results_df, LAMBDA t : t.is_winner = TRUE)
        losing == SelectSeq(results_df, LAMBDA t : t.is_winner = FALSE)
        winning_trades == Len(winning)
        losing_trades == total_trades - winning_trades
        total_pnl == sum(results_df, "pnl")
        cumulative_pnl == cumsum(results_df)
        peaks == running_max(cumulative_pnl)
        drawdown == [i \in DOMAIN cumulative_pnl |-> cumulative_pnl[i] - peaks[i]]
        max_drawdown == min(drawdown)
    IN  [status |-> "summary",
         total_trades |-> total_trades,
         winning_trades |-> winning_trades,
         losing_trades |-> losing_trades,
         win_rate |-> round(winning_trades * 10000, total_trades),
         total_pnl |-> total_pnl,
         avg_pnl |-> round(total_pnl, total_trades),
         avg_pnl_pct |-> round(sum(results_df, "pnl_pct"), total_trades),
         avg_win |-> IF winning = <<>> THEN 0
                     ELSE round(sum(winning, "pnl"), Len(winning)),
         avg_loss |-> IF losing = <<>> THEN 0
                      ELSE round(sum(losing, "pnl"), Len(losing)),
         risk_reward_ratio |->
             IF losing = <<>> \/ sum(losing, "pnl") = 0 \/ winning = <<>> THEN 0
             ELSE round(100 * sum(winning, "pnl") * Len(losing),
                        Len(winning) * abs(sum(losing, "pnl"))),
         max_drawdown |-> max_drawdown,
         max_drawdown_pct |-> IF max(peaks) # 0
                              THEN round(max_drawdown * 10000, max(peaks))
                              ELSE 0,
         best_trade |-> max(column(results_df, "pnl_pct")),
         worst_trade |-> min(column(results_df, "pnl_pct")),
         avg_holding_days |-> round(sum(results_df, "days_held") * 10, total_trades),
         exit_reasons |-> value_counts(results_df)]

\* the empty dict
EmptySummary == [status |-> "empty"]

\* calculate_metrics (lines 178-244)
calculate_metrics(results_df) ==
    IF results_df = <<>> THEN EmptySummary ELSE summary(results_df)

\* json.dumps({}), and the JSON of a figure with one trace
EmptyChart == [status |-> "empty", trace |-> <<>>]
Chart(trace) == [status |-> "chart", trace |-> trace]

\* generate_equity_curve (lines 246-280): the chart returned and the frame it
\* was handed as the call leaves it.  Line 255 assigns the column
\* cumulative_pnl to results_df itself.
generate_equity_curve(results_df) ==
    IF results_df = <<>>
    THEN [chart |-> EmptyChart, frame |-> results_df]
    ELSE LET cumulative_pnl == cumsum(results_df)
             df == [i \in DOMAIN results_df |->
                       [entry_price |-> results_df[i].entry_price,
                        exit_price |-> results_df[i].exit_price,
                        exit_reason |-> results_df[i].exit_reason,
                        days_held |-> results_df[i].days_held,
                        pnl |-> results_df[i].pnl,
                        pnl_pct |-> results_df[i].pnl_pct,
                        is_winner |-> results_df[i].is_winner,
                        cumulative_pnl |-> cumulative_pnl[i]]]
         IN  [chart |-> Chart(column(df, "cumulative_pnl")), frame |-> df]

\* generate_returns_distribution (lines 282-317): a histogram of pnl_pct; the
\* frame is read only
generate_returns_distribution(results_df) ==
    IF results_df = <<>>
    THEN [chart |-> EmptyChart, frame |-> results_df]
    ELSE [chart |-> Chart(column(results_df, "pnl_pct")), frame |-> results_df]

\* met.in is the frame as run_backtest returned it, met.frame the same object
\* as the calls made so far have left it
NoMetrics == [in |-> <<>>, out |-> NoResult, frame |-> <<>>,
              equity_curve |-> NoResult, returns_distribution |-> NoResult]

\* one call of calculate_metrics on the frame drawn at the start
CalculateMetrics ==
    /\ met.out = Pending
    /\ met' = [met EXCEPT !.out = calculate_metrics(met.frame)]
    /\ UNCHANGED <<routerVars, histVars, thrVars, simVars, entry, bt, app, mock, exitp,
                   smart>>

\* the calls that follow it in run_backtest of app.py (lines 220-222), on the
\* same frame
GenerateEquityCurve ==
    /\ met.out \notin {Pending, NoResult}
    /\ met.equity_curve = Pending
    /\ LET g == generate_equity_curve(met.frame) IN
       met' = [met EXCEPT !.frame = g.frame, !.equity_curve = g.chart]
    /\ UNCHANGED <<routerVars, histVars, thrVars, simVars, entry, bt, app, mock, exitp,
                   smart>>

GenerateReturnsDistribution ==
    /\ met.equity_curve \notin {Pending, NoResult}
    /\ met.returns_distribution = Pending
    /\ LET g == generate_returns_distribution(met.frame) IN
       met' = [met EXCEPT !.frame = g.frame, !.returns_distribution = g.chart]
    /\ UNCHANGED <<routerVars, histVars, thrVars, simVars, entry, bt, app, mock, exitp,
                   smart>>

\* ------------------------------------------------------ web application
\* The Flask application of src/app.py and the earlier one of
\* src/app_backup.py: module globals and the routes that change them.  One
\* of the two programs runs; app.program says which.
Programs == {"app", "app_backup"}

\* the methods class SmartAPIClient defines (src/smartapi_client.py 20-406);
\* a call of any other name on an instance raises AttributeError
SmartAPIClientMethods ==
    {"__init__", "login", "_try_login_method_1", "_try_login_method_2",
     "_try_login_method_3", "_store_auth_tokens", "get_historical_data",
     "get_symbol_token", "get_hourly_data_for_entry", "get_daily_data_for_exit"}

\* the parameters of BacktestEngine.run_backtest (src/backtest_engine.py 23-24);
\* a call with any other keyword raises TypeError
RunBacktestParams ==
    {"trades_df", "stop_loss_pct", "target_profit_pct", "max_holding_days"}

NoData == [kind |-> "None", rows |-> <<>>]
DataFrame(rows) == [kind |-> "frame", rows |-> rows]
NoClient == [kind |-> "None", is_authenticated |-> FALSE]
KiteDataClient(auth) == [kind |-> "client", is_authenticated |-> auth]
Response(status, body) == [status |-> status, body |-> body]

\* the files POSTed to /upload and the JSON bodies POSTed to the other routes
UploadedFiles ==
    {[file |-> f, rows |-> <<>>] : f \in {"missing", "no name", "not csv", "bad columns", "bad date"}}
    \cup {[file |-> "csv", rows |-> r] : r \in SeqsUpTo(Trades, 1)}
CredentialBodies ==
    {[json |-> j, login_ok |-> FALSE] : j \in {"none", "missing fields", "too short"}}
    \cup {[json |-> "complete", login_ok |-> b] : b \in BOOLEAN}
RunBodies == {[json |-> j, pandas |-> z] : j \in {"none", "params"}, z \in PandasBuilds}

\* the browser sessions that use the one process: each makes its own run
\* (upload, run_backtest, export_results); 0 is no session
Sessions == {1, 2}

NoRequest == [route |-> "", session |-> 0, uploaded_data |-> NoData,
              uploaded_by |-> 0, backtest_results |-> NoData, results_by |-> 0,
              configured |-> FALSE, json |-> "", processed |-> <<>>]

\* the globals after import (app.py 26-28, app_backup.py 20-22)
Globals(program) ==
    [program |-> program, uploaded_data |-> NoData, uploaded_by |-> 0,
     backtest_results |-> NoData, results_by |-> 0,
     stored_credentials |-> FALSE, kite_client |-> NoClient,
     resp |-> Response(0, ""), last |-> NoRequest]

\* whether a run would find a provider: app.py 191, app_backup.py 88
Configured(g) ==
    IF g.program = "app" THEN g.stored_credentials
    ELSE g.kite_client.kind = "client" /\ g.kite_client.is_authenticated

\* what is noted of a request when it is served: the route, the session it
\* comes from, and the globals it found with the session that last set them
Served(g, route, json, session) ==
    [route |-> route, session |-> session, uploaded_data |-> g.uploaded_data,
     uploaded_by |-> g.uploaded_by, backtest_results |-> g.backtest_results,
     results_by |-> g.results_by, configured |-> Configured(g),
     json |-> json, processed |-> <<>>]

\* upload_file of app.py (126-173); a date that does not parse raises (146)
app_upload_file(g, f) ==
    IF f.file \in {"missing", "no name", "not csv", "bad columns"}
    THEN [g EXCEPT !.resp = Response(400, f.file)]
    ELSE IF f.file = "bad date"
    THEN [g EXCEPT !.resp = Response(500, "Error processing file")]
    ELSE [g EXCEPT !.uploaded_data = DataFrame(f.rows), !.uploaded_by = g.last.session,
                   !.resp = Response(200, "uploaded")]

\* upload_file of app_backup.py (28-73): no test of the file name's ending;
\* rows whose date does not parse are dropped (53-58), and a frame without a
\* valid row is refused
backup_upload_file(g, f) ==
    IF f.file \in {"missing", "no name", "bad columns"}
    THEN [g EXCEPT !.resp = Response(400, f.file)]
    ELSE IF f.rows = <<>>
    THEN [g EXCEPT !.resp = Response(400, "no valid entries")]
    ELSE [g EXCEPT !.uploaded_data = DataFrame(f.rows), !.uploaded_by = g.last.session,
                   !.resp = Response(200, "uploaded")]

\* save_credentials of app.py (38-123)
app_save_credentials(g, d) ==
    IF d.json = "none"
    THEN [g EXCEPT !.resp = Response(500, "Error saving credentials")]
    ELSE IF d.json = "missing fields"
    THEN [g EXCEPT !.resp = Response(400, "Missing required fields")]
    ELSE IF "set_credentials" \notin SmartAPIClientMethods
    THEN [g EXCEPT !.resp = Response(500, "Error saving credentials")]
    ELSE IF d.json = "too short"
    THEN [g EXCEPT !.resp = Response(400, "too short")]
    ELSE IF d.login_ok
    THEN [g EXCEPT !.stored_credentials = TRUE, !.resp = Response(200, "saved")]
    ELSE [g EXCEPT !.resp = Response(400, "Authentication failed")]

\* save_credentials of app_backup.py (148-178)
backup_save_credentials(g, d) ==
    IF d.json = "none"
    THEN [g EXCEPT !.resp = Response(500, "Error saving credentials")]
    ELSE IF d.json = "missing fields"
    THEN [g EXCEPT !.resp = Response(400, "required")]
    ELSE IF d.login_ok
    THEN [g EXCEPT !.kite_client = KiteDataClient(TRUE), !.resp = Response(200, "saved")]
    ELSE [g EXCEPT !.kite_client = KiteDataClient(FALSE),
                   !.resp = Response(400, "Authentication failed")]

\* lines 194-230 of app.py: the client, the engine, the run, the results kept
app_run_engine(g, d) ==
    IF "set_credentials" \notin SmartAPIClientMethods
    THEN [g EXCEPT !.resp = Response(500, "Error running backtest")]
    ELSE LET out == run_backtest([rows |-> g.uploaded_data.rows,
                                  has_entry_datetime |-> TRUE, pandas |-> d.pandas])
         IN  [g EXCEPT !.backtest_results = DataFrame(out.results),
                       !.results_by = g.last.session,
                       !.last.processed = out.processed,
                       !.resp = Response(200, "success")]

\* run_backtest of app.py (176-234) with the test of line 191 left out
app_run_backtestNoCredentialTest(g, d) ==
    IF g.uploaded_data = NoData
    THEN [g EXCEPT !.resp = Response(400, "No data uploaded")]
    ELSE IF d.json = "none"
    THEN [g EXCEPT !.resp = Response(500, "Error running backtest")]
    ELSE app_run_engine(g, d)

\* run_backtest of app.py (176-234)
app_run_backtest(g, d) ==
    IF g.uploaded_data = NoData
    THEN [g EXCEPT !.resp = Response(400, "No data uploaded")]
    ELSE IF d.json = "none"
    THEN [g EXCEPT !.resp = Response(500, "Error running backtest")]
    ELSE IF ~g.stored_credentials
    THEN [g EXCEPT !.resp = Response(400, "No credentials found")]
    ELSE app_run_engine(g, d)

\* run_backtest of app_backup.py (76-114): the engine is called with a
\* keyword it does not take
backup_run_backtest(g, d) ==
    IF g.uploaded_data = NoData
    THEN [g EXCEPT !.resp = Response(400, "No data uploaded")]
    ELSE IF d.json = "none"
    THEN [g EXCEPT !.resp = Response(500, "Error running backtest")]
    ELSE IF g.kite_client.kind = "None" \/ ~g.kite_client.is_authenticated
    THEN [g EXCEPT !.resp = Response(400, "Kite Connect not authenticated")]
    ELSE IF "holding_days" \notin RunBacktestParams
    THEN [g EXCEPT !.resp = Response(500, "Error running backtest")]
    ELSE LET out == run_backtest([rows |-> g.uploaded_data.rows,
                                  has_entry_datetime |-> TRUE, pandas |-> d.pandas])
         IN  [g EXCEPT !.backtest_results = DataFrame(out.results),
                       !.results_by = g.last.session,
                       !.last.processed = out.processed,
                       !.resp = Response(200, "success")]

\* export_results of app.py (236-259) and of app_backup.py (116-142): the
\* CSV of the global backtest_results, whoever set it
export_results(g) ==
    IF g.backtest_results = NoData
    THEN [g EXCEPT !.resp = Response(400, IF g.program = "app"
                                          THEN "No backtest results available"
                                          ELSE "No results to export")]
    ELSE [g EXCEPT !.resp = Response(200, "csv")]

NoApp == Globals("app")

AppUnchanged ==
    UNCHANGED <<routerVars, histVars, thrVars, simVars, entry, bt, mock, lateVars>>

\* POST /upload
UploadFile(f, s) ==
    /\ app' = LET g == [app EXCEPT !.last = Served(app, "upload", f.file, s)] IN
              IF app.program = "app" THEN app_upload_file(g, f)
              ELSE backup_upload_file(g, f)
    /\ AppUnchanged

\* POST /save_credentials
SaveCredentials(d, s) ==
    /\ app' = LET g == [app EXCEPT !.last = Served(app, "save_credentials", d.json, s)] IN
              IF app.program = "app" THEN app_save_credentials(g, d)
              ELSE backup_save_credentials(g, d)
    /\ AppUnchanged

\* POST /run_backtest
RunBacktestRoute(d, s) ==
    /\ app' = LET g == [app EXCEPT !.last = Served(app, "run_backtest", d.json, s)] IN
              IF app.program = "app" THEN app_run_backtest(g, d)
              ELSE backup_run_backtest(g, d)
    /\ AppUnchanged

\* GET /export_results
ExportResults(s) ==
    /\ app' = export_results([app EXCEPT !.last = Served(app, "export_results", "", s)])
    /\ AppUnchanged

\* -------------------------------------------------- synthetic generator
\* EnhancedDataClient._create_mock_data (src/enhanced_data_client.py 325-373;
\* DataClient._create_mock_data, src/data_client.py 210-262, is the same, and
\* ProfessionalDataProvider.get_historical_data seeds the same way).  Prices
\* are in hundredths.

\* The values the interpreter's string-hash salt can take: Python draws it
\* anew for each process unless PYTHONHASHSEED fixes it.
HashSeeds == {0, 1}

\* hash(symbol) % 2**32 (line 343), with the seed space scaled down to 2^16
SeedModulus == 65536

ord(c) == IF c = "A" THEN 65 ELSE IF c = "B" THEN 66 ELSE 95

\* the interpreter's hash of a string: a salted fold over its characters
RECURSIVE hash_fold(_, _, _)
hash_fold(str, i, x) ==
    IF i > Len(str) THEN x
    ELSE hash_fold(str, i + 1, (x * 31 + ord(str[i])) % SeedModulus)

hash(str, salt) == (hash_fold(str, 1, salt * 7919) + Len(str) + salt) % SeedModulus

\* numpy's global generator: np.random.seed sets its state, every draw
\* advances it (a linear congruential step stands for the Mersenne Twister)
seed(n) == n % SeedModulus
advance(state) == (state * 75 + 74) % 65537
normal(state, spread) == (state % (2 * spread + 1)) - spread
randint(state, lo, hi) == lo + (state % (hi - lo))

\* pd.date_range(start, end, freq): the number of stamps (lines 334-339)
HoursPerDay == 24
date_range(from_date, to_date, interval) ==
    LET days == to_datetime(to_date) - to_datetime(from_date) IN
    IF days < 0 THEN 0
    ELSE IF interval = "1h" THEN days * HoursPerDay + 1
    ELSE days + 1

\* the loop of lines 348-365 from stamp i on
RECURSIVE mock_rows(_, _, _, _)
mock_rows(i, n, current_price, state) ==
    IF i > n THEN [rows |-> <<>>, state |-> state]
    ELSE LET s1 == advance(state)
             s2 == advance(s1)
             s3 == advance(s2)
             s4 == advance(s3)
             s5 == advance(s4)
             price == (current_price * (100 + normal(s1, 2))) \div 100
             rest == mock_rows(i + 1, n, price, s5)
         IN  [rows |-> <<[datetime |-> i,
                          open |-> (price * (1000 + normal(s4, 5))) \div 1000,
                          high |-> (price * (100 + abs(normal(s2, 1)))) \div 100,
                          low |-> (price * (100 - abs(normal(s3, 1)))) \div 100,
                          close |-> price,
                          volume |-> randint(s5, 1000, 10000)]>> \o rest.rows,
              state |-> rest.state]

\* _create_mock_data (lines 329-373) in a process whose hash salt is salt
create_mock_data(r, salt) ==
    mock_rows(1, date_range(r.from_date, r.to_date, r.interval), 10000,
              seed(hash(r.symbol, salt)))

\* _resample_to_hourly (lines 293-323) reseeds the same generator with 42
resample_state == advance(seed(42))

\* the states of the generator over its next j draws, in order
RECURSIVE stream(_, _)
stream(state, j) ==
    IF j = 0 THEN <<>>
    ELSE IF j = 1 THEN <<advance(state)>>
    ELSE LET left == stream(state, j \div 2)
         IN  left \o stream(left[Len(left)], j - (j \div 2))

\* The daily frames a vendor hands to _resample_to_hourly: one candle on each
\* of one or two days, sorted by datetime (line 130), every candle well formed.
DailyCandles ==
    { [open |-> 10000, high |-> 10000, low |-> 10000, close |-> 10000],
      [open |-> 10000, high |-> 11000, low |-> 9000, close |-> 10500] }
DailyFrame(ds, c) ==
    [k \in 1..Cardinality(ds) |->
        [datetime |-> CHOOSE d \in ds : Cardinality({e \in ds : e <= d}) = k] @@ c]
DailyFrames ==
    { DailyFrame(ds, c) : ds \in {{1}, {2}, {1, 2}}, c \in DailyCandles }

\* resample('H').ffill() (line 305): one row per hour from the first stamp to
\* the last, each with the values of the latest daily row at or before it
ffill(daily_df, hour) ==
    LET at == { i \in DOMAIN daily_df : daily_df[i].datetime * HoursPerDay <= hour }
        latest == CHOOSE i \in at : \A j \in at : j <= i
    IN  daily_df[latest]

\* _resample_to_hourly: the variation of lines 308-313, drawn column by
\* column over the whole frame, then the repair of high and low (316-317)
resample_to_hourly(daily_df) ==
    LET first == daily_df[1].datetime * HoursPerDay
        last == daily_df[Len(daily_df)].datetime * HoursPerDay
        n == last - first + 1
        variation == stream(resample_state, 4 * n)
        vary(x, col, k) == (x * (1000 + normal(variation[col * n + k], 1))) \div 1000
        row(k) ==
            LET d == ffill(daily_df, first + k - 1)
                o == vary(d.open, 0, k)
                h == vary(d.high, 1, k)
                l == vary(d.low, 2, k)
                c == vary(d.close, 3, k)
                max3(x, y, z) == IF x >= y /\ x >= z THEN x ELSE IF y >= z THEN y ELSE z
                min3(x, y, z) == IF x <= y /\ x <= z THEN x ELSE IF y <= z THEN y ELSE z
            IN  [datetime |-> first + k - 1, open |-> o, high |-> max3(o, c, h),
                 low |-> min3(o, c, l), close |-> c]
    IN  [rows |-> [k \in 1..n |-> row(k)], state |-> variation[4 * n]]

NoMockCall == [req |-> NoReq, rows |-> <<>>]

\* a process that has just started: no call made, the generator unseeded
Process(salt, seen) ==
    [hashseed |-> salt, rng |-> 0, seen |-> seen, last |-> NoMockCall,
     hourly |-> <<>>]

NoMock == Process(0, <<>>)

MockUnchanged ==
    UNCHANGED <<routerVars, histVars, thrVars, simVars, entry, bt, app, lateVars>>

\* one call of _create_mock_data; the series of the first call ever made for
\* a request is kept in seen, to compare later calls with
CreateMockData(r) ==
    /\ LET d == create_mock_data(r, mock.hashseed) IN
       mock' = [mock EXCEPT
                   !.rng = d.state,
                   !.last = [req |-> r, rows |-> d.rows],
                   !.seen = IF cache_key(r) \in DOMAIN @ THEN @
                            ELSE [k \in DOMAIN @ \cup {cache_key(r)} |->
                                    IF k = cache_key(r) THEN d.rows ELSE @[k]]]
    /\ MockUnchanged

\* one call of _resample_to_hourly, the other user of the generator, between
\* two calls of _create_mock_data
ResampleToHourly(daily_df) ==
    /\ LET h == resample_to_hourly(daily_df) IN
       mock' = [mock EXCEPT !.rng = h.state, !.hourly = h.rows]
    /\ MockUnchanged

\* the program ends and is started again: a new process, a new hash salt
Restart ==
    /\ \E salt \in HashSeeds : mock' = Process(salt, mock.seen)
    /\ MockUnchanged

\* ------------------------------------------------------------ exit price
\* KiteDataClient.get_exit_price (src/kite_client.py 235-276) and
\* ProfessionalDataProvider.get_exit_price (src/data_provider.py 124-140), the
\* two implementations of an exit after a fixed number of days.  Time is in
\* hours, prices are in hundredths.
At(day, hour) == day * HoursPerDay + hour
day_of(t) == t \div HoursPerDay

\* What the vendor has of a symbol: a daily candle on each trading day and, at
\* the finer interval, a candle at each of two hours of the session.  The
\* first of these opens where the day opens.
SessionHours == {9, 15}
EntryHours == {9, 10, 14}
DayOpen(d) == 10000 + 100 * d
daily_candle(d) ==
    [datetime |-> At(d, 0), open |-> DayOpen(d), close |-> DayOpen(d) + 50]
minute_candle(d, h) ==
    [datetime |-> At(d, h), open |-> DayOpen(d) + (h - 9), close |-> DayOpen(d) + (h - 8)]

\* df.sort_values('datetime') (kite_client.py 182)
RECURSIVE sort_values(_)
sort_values(candles) ==
    IF candles = {} THEN <<>>
    ELSE LET c == CHOOSE x \in candles : \A y \in candles : x.datetime <= y.datetime
         IN  <<c>> \o sort_values(candles \ {c})

\* KiteDataClient.get_historical_data (lines 125-194): None when the client is
\* not authenticated or the vendor has no candle from from_date 00:00 to
\* to_date 00:00, else the candles of that range, sorted
kite_get_historical_data(a, from_day, to_day, interval) ==
    LET all == IF interval = "minute"
               THEN IF a.minute
                    THEN {minute_candle(d, h) : d \in a.days, h \in SessionHours}
                    ELSE {}
               ELSE {daily_candle(d) : d \in a.days}
        got == { c \in all : At(from_day, 0) <= c.datetime /\ c.datetime <= At(to_day, 0) }
    IN  IF ~a.auth \/ got = {}
        THEN [kind |-> "None", tz |-> "naive", rows |-> <<>>]
        ELSE [kind |-> "frame", tz |-> a.tz, rows |-> sort_values(got)]

\* df.loc[df['time_diff'].idxmin()] (lines 262-263): the first row nearest to t
closest_candle(rows, t) ==
    LET diff(i) == abs(rows[i].datetime - t)
        i == CHOOSE k \in DOMAIN rows :
                \A j \in DOMAIN rows : diff(k) < diff(j) \/ (diff(k) = diff(j) /\ k <= j)
    IN  rows[i]

Price(x) == [status |-> "price", price |-> x]

\* KiteDataClient.get_exit_price (lines 235-276).  Subtracting the naive exit
\* time from a timezone-aware column raises (line 262), and the handler of
\* lines 274-276 returns None.
kite_get_exit_price(a) ==
    LET exit_date == At(a.entry_day, a.entry_hour) + a.holding_days * HoursPerDay
        from_date == day_of(exit_date)
        to_date == from_date + 1
        minute_df == kite_get_historical_data(a, from_date, to_date, "minute")
        day_df == kite_get_historical_data(a, from_date, to_date, "day")
    IN  IF minute_df.kind = "frame"
        THEN IF minute_df.tz = "aware" THEN NoResult
             ELSE Price(closest_candle(minute_df.rows, exit_date).open)
        ELSE IF day_df.kind = "frame" THEN Price(day_df.rows[1].open)
        ELSE NoResult

\* ProfessionalDataProvider.get_historical_data (lines 55-106): one generated
\* candle for each day from from_date to to_date, the walk of lines 77-96
\* started anew at every call from a price and a seed taken from the symbol's
\* hash; None when the provider is not authenticated
provider_get_historical_data(a, from_day, to_day) ==
    IF ~a.auth THEN [kind |-> "None", tz |-> "naive", rows |-> <<>>]
    ELSE LET h == hash(a.symbol, a.salt)
             gen == mock_rows(1, to_day - from_day + 1, (100 + (h % 1000)) * 100,
                              seed(h)).rows
         IN  [kind |-> "frame", tz |-> "naive",
              rows |-> [i \in DOMAIN gen |->
                         [date |-> At(from_day + i - 1, 0), Open |-> gen[i].open,
                          High |-> gen[i].high, Low |-> gen[i].low,
                          Close |-> gen[i].close]]]

\* ProfessionalDataProvider.get_exit_price (lines 124-140)
provider_get_exit_price(a) ==
    LET exit_datetime == At(a.entry_day, a.entry_hour) + a.holding_days * HoursPerDay
        df == provider_get_historical_data(a, a.entry_day, day_of(exit_datetime))
    IN  IF df.kind = "None" \/ df.rows = <<>> THEN NoResult
        ELSE Price(df.rows[Len(df.rows)].Close)

get_exit_price(a) ==
    IF a.client = "kite" THEN kite_get_exit_price(a) ELSE provider_get_exit_price(a)

\* the calls of the bounds: the client, the entry, the holding period and what
\* the vendor has (the provider generates a candle for every day)
ExitInputs ==
    [client : {"kite"}, symbol : {<<"A">>}, entry_day : 0..1, entry_hour : EntryHours,
     holding_days : 1..MaxHold, days : SUBSET (0..MaxDay), minute : BOOLEAN,
     tz : {"naive", "aware"}, auth : BOOLEAN, salt : {0}]
    \cup
    [client : {"provider"}, symbol : {<<"A">>, <<"B">>}, entry_day : 0..1,
     entry_hour : EntryHours, holding_days : 1..MaxHold, days : {0..MaxDay},
     minute : {FALSE}, tz : {"naive"}, auth : BOOLEAN, salt : HashSeeds]

NoExit == [in |-> [client |-> "", symbol |-> <<>>, entry_day |-> 0, entry_hour |-> 0,
                   holding_days |-> 0, days |-> {}, minute |-> FALSE, tz |-> "naive",
                   auth |-> FALSE, salt |-> 0],
           out |-> NoResult]

\* one call of get_exit_price on the arguments drawn at the start
GetExitPrice ==
    /\ exitp.out = Pending
    /\ exitp' = [exitp EXCEPT !.out = get_exit_price(exitp.in)]
    /\ UNCHANGED <<routerVars, histVars, thrVars, simVars, entry, bt, app, mock, met,
                   smart>>

\* ------------------------------------------------------ SmartAPI client
\* SmartAPIClient (src/smartapi_client.py): login with its three methods,
\* the tokens it keeps, and get_historical_data.  A token is named by the
\* number of the login method whose answer carried it; 0 is None.

\* the methods in auth_methods (lines 58-62)
NumAuthMethods == 3

\* What the server does with a POST to loginByPassword: the post raises (no
\* connection), the status is not 200, the body refuses the login, the body
\* carries jwtToken, refreshToken and feedToken, or it carries jwtToken alone.
LoginAnswers == {"raise", "http error", "refused", "tokens", "jwt only"}
\* and with a POST to the symbol search and to getCandleData
SearchAnswers == {"found", "not found"}
CandleAnswers == {"candles", "no data", "http error"}

\* the client after __init__ (lines 20-35): no token; the credentials come
\* from the environment, all three of them or not
SmartAPIClient(credentials) ==
    [credentials |-> credentials, access_token |-> 0, refresh_token |-> 0,
     feed_token |-> 0, jwt_token |-> 0, sent |-> <<>>]

\* a request handed to self.session.post, with the access token held then
Post(c, url, method) ==
    [c EXCEPT !.sent = Append(@, [url |-> url, method |-> method,
                                  access_token |-> c.access_token])]

\* _store_auth_tokens (lines 210-228) on the data of method i's answer: the
\* assignments in their order; data['refreshToken'] raises KeyError when the
\* answer carries jwtToken alone, after access_token has been assigned
store_auth_tokens(c, i, answer) ==
    IF answer = "tokens"
    THEN [c |-> [c EXCEPT !.access_token = i, !.refresh_token = i,
                          !.feed_token = i, !.jwt_token = i],
          raised |-> FALSE]
    ELSE [c |-> [c EXCEPT !.access_token = i], raised |-> TRUE]

\* _try_login_method_1, _2, _3 (lines 78-208): the three differ in their
\* headers and in the TOTP sent; whatever raises gives False
try_login_method(c, i, answer) ==
    LET posted == Post(c, "loginByPassword", i) IN
    IF answer \in {"raise", "http error", "refused"}
    THEN [c |-> posted, ok |-> FALSE]
    ELSE LET stored == store_auth_tokens(posted, i, answer) IN
         [c |-> stored.c, ok |-> ~stored.raised]

\* the loop over auth_methods from method i on (lines 66-71)
RECURSIVE login_loop(_, _, _)
login_loop(c, answers, i) ==
    IF i > Len(answers)
    THEN [c |-> c, ret |-> FALSE]
    ELSE LET t == try_login_method(c, i, answers[i]) IN
         IF t.ok THEN [c |-> t.c, ret |-> TRUE]
         ELSE login_loop(t.c, answers, i + 1)

\* login (lines 37-76)
login(c, answers) ==
    IF ~c.credentials
    THEN [c |-> c, ret |-> FALSE]
    ELSE login_loop(c, answers, 1)

\* get_symbol_token (lines 302-347), called with a token held
get_symbol_token(c, search) ==
    [c |-> Post(c, "search", 0), token |-> search = "found"]

\* get_historical_data (lines 230-300): whether a frame is returned
smart_get_historical_data(c, answers, search, candles) ==
    LET l == IF c.access_token = 0 THEN login(c, answers)
             ELSE [c |-> c, ret |-> TRUE]
    IN  IF ~l.ret
        THEN [c |-> l.c, ret |-> FALSE]
        ELSE LET t == get_symbol_token(l.c, search) IN
             IF ~t.token
             THEN [c |-> t.c, ret |-> FALSE]
             ELSE [c |-> Post(t.c, "getCandleData", 0), ret |-> candles = "candles"]

\* the client, and of the last call made on it: its name, the client it
\* found, the answers the server had for it, and what it returned
NoSmart == [c |-> SmartAPIClient(FALSE),
            last |-> [op |-> "", before |-> SmartAPIClient(FALSE),
                      answers |-> <<>>, ret |-> FALSE]]

\* client.login()
Login(answers) ==
    /\ LET l == login([smart.c EXCEPT !.sent = <<>>], answers) IN
       smart' = [c |-> l.c,
                 last |-> [op |-> "login", before |-> [smart.c EXCEPT !.sent = <<>>],
                           answers |-> answers, ret |-> l.ret]]
    /\ UNCHANGED <<routerVars, histVars, thrVars, simVars, entry, bt, app, mock,
                   exitp, met>>

\* client.get_historical_data(...)
SmartGetHistoricalData(answers, search, candles) ==
    /\ LET h == smart_get_historical_data([smart.c EXCEPT !.sent = <<>>],
                                          answers, search, candles) IN
       smart' = [c |-> h.c,
                 last |-> [op |-> "get_historical_data",
                           before |-> [smart.c EXCEPT !.sent = <<>>],
                           answers |-> answers, ret |-> h.ret]]
    /\ UNCHANGED <<routerVars, histVars, thrVars, simVars, entry, bt, app, mock,
                   exitp, met>>

NoSim == [in |-> [symbol |-> <<>>, entry_price |-> 0, entry_date |-> 0,
                  daily_data |-> <<>>, stop_loss_pct |-> 0,
                  target_profit_pct |-> 0, max_holding_days |-> 0,
                  pandas |-> "coerces"],
          out |-> NoResult]

\* the client after __init__ (lines 22-38), no call made yet
RouterInit ==
    /\ cache = <<>>
    /\ api_call_counts = [s \in SourceNames |-> 0]
    /\ cur = NoCall
    /\ prev = Earlier(NoCall, Raised)
    /\ pc = [t \in 1..MaxThreads |-> "idle"]
    /\ loc = [t \in 1..MaxThreads |-> NoLocals]

\* no call of get_exit_price or calculate_metrics under way
LateInit ==
    /\ exitp = NoExit
    /\ met = NoMetrics
    /\ smart = NoSmart

\* no call of the other operations under way
RestInit ==
    /\ entry = NoEntry
    /\ bt = NoRun
    /\ app = NoApp
    /\ mock = NoMock
    /\ LateInit

Init ==
    /\ RouterInit
    /\ sim = NoSim
    /\ RestInit

Next == \E r \in Requests : get_historical_data(r)

Spec == Init /\ [][Next]_vars

\* The client called for one symbol, daily and hourly, with _simulate_trade
\* handed the series returned.
CacheRequests == {r \in Requests : r.symbol = <<"A">> /\ ValidRange(r)}

CacheNext ==
    \/ \E r \in CacheRequests : get_historical_data(r)
    \/ AssignDatetime

CacheSpec == Init /\ [][CacheNext]_vars

ConcNext ==
    \/ \E t \in Threads, r \in Requests : T_Call(t, r)
    \/ \E t \in Threads : T_CheckCache(t)
    \/ \E t \in Threads : T_CheckLimit(t)
    \/ \E t \in Threads : T_CallSource(t)
    \/ \E t \in Threads : T_CountRead(t)
    \/ \E t \in Threads : T_CountWrite(t)
    \/ \E t \in Threads : T_Store(t)
    \/ \E t \in Threads : T_Return(t)

ConcSpec == Init /\ [][ConcNext]_vars

\* _simulate_trade on every series, entry date and holding period of the bounds
SimInit ==
    /\ RouterInit
    /\ sim \in [in : SimInputs \cup FlatInputs, out : {Pending}]
    /\ RestInit

SimNext == SimulateTrade

SimSpec == SimInit /\ [][SimNext]_vars

\* get_hourly_data_for_entry on every frame and entry time of the bounds
EntryInit ==
    /\ RouterInit
    /\ sim = NoSim
    /\ entry \in [in : EntryInputs, out : {Pending}]
    /\ bt = NoRun
    /\ app = NoApp
    /\ mock = NoMock
    /\ LateInit

EntryNext == GetHourlyDataForEntry

EntrySpec == EntryInit /\ [][EntryNext]_vars

\* run_backtest on every frame of trades of the bounds
BtInit ==
    /\ RouterInit
    /\ sim = NoSim
    /\ entry = NoEntry
    /\ bt \in [in : BtInputs, out : {Pending}]
    /\ app = NoApp
    /\ mock = NoMock
    /\ LateInit

BtNext == RunBacktest

BtSpec == BtInit /\ [][BtNext]_vars

\* one of the two applications, from its start, serving requests
AppInit ==
    /\ RouterInit
    /\ sim = NoSim
    /\ entry = NoEntry
    /\ bt = NoRun
    /\ app \in {Globals(p) : p \in Programs}
    /\ mock = NoMock
    /\ LateInit

AppNext ==
    \/ \E f \in UploadedFiles, s \in Sessions : UploadFile(f, s)
    \/ \E d \in CredentialBodies, s \in Sessions : SaveCredentials(d, s)
    \/ \E d \in RunBodies, s \in Sessions : RunBacktestRoute(d, s)
    \/ \E s \in Sessions : ExportResults(s)

AppSpec == AppInit /\ [][AppNext]_vars

\* the synthetic generator over the runs of the program
MockInit ==
    /\ RouterInit
    /\ sim = NoSim
    /\ entry = NoEntry
    /\ bt = NoRun
    /\ app = NoApp
    /\ mock \in {Process(salt, <<>>) : salt \in HashSeeds}
    /\ LateInit

MockNext ==
    \/ \E r \in Requests : CreateMockData(r)
    \/ \E daily_df \in DailyFrames : ResampleToHourly(daily_df)
    \/ Restart

MockSpec == MockInit /\ [][MockNext]_vars

\* get_exit_price on every entry, holding period and vendor calendar of the bounds
ExitInit ==
    /\ RouterInit
    /\ sim = NoSim
    /\ entry = NoEntry
    /\ bt = NoRun
    /\ app = NoApp
    /\ mock = NoMock
    /\ exitp \in [in : ExitInputs, out : {Pending}]
    /\ met = NoMetrics
    /\ smart = NoSmart

ExitNext == GetExitPrice

ExitSpec == ExitInit /\ [][ExitNext]_vars

\* calculate_metrics on every frame of results of the bounds
MetricsInit ==
    /\ RouterInit
    /\ sim = NoSim
    /\ entry = NoEntry
    /\ bt = NoRun
    /\ app = NoApp
    /\ mock = NoMock
    /\ exitp = NoExit
    /\ met \in {[in |-> f, out |-> Pending, frame |-> f, equity_curve |-> Pending,
                  returns_distribution |-> Pending] : f \in ResultFrames}
    /\ smart = NoSmart

MetricsNext ==
    \/ CalculateMetrics
    \/ GenerateEquityCurve
    \/ GenerateReturnsDistribution

MetricsSpec == MetricsInit /\ [][MetricsNext]_vars

\* a client made with or without its credentials, and calls on it in any order
SmartInit ==
    /\ RouterInit
    /\ sim = NoSim
    /\ entry = NoEntry
    /\ bt = NoRun
    /\ app = NoApp
    /\ mock = NoMock
    /\ exitp = NoExit
    /\ met = NoMetrics
    /\ smart \in {[NoSmart EXCEPT !.c = SmartAPIClient(b)] : b \in BOOLEAN}

\* get_historical_data logs in only when it holds no access token; the
\* server has answers for its login posts only then
LoginsAsked ==
    IF smart.c.access_token = 0 THEN [1..NumAuthMethods -> LoginAnswers] ELSE {<<>>}

SmartNext ==
    \/ \E answers \in [1..NumAuthMethods -> LoginAnswers] : Login(answers)
    \/ \E answers \in LoginsAsked, search \in SearchAnswers,
          candles \in CandleAnswers :
           SmartGetHistoricalData(answers, search, candles)

SmartSpec == SmartInit /\ [][SmartNext]_vars

\* =================================================================== claims
\* A completed call of get_historical_data is in cur; Made says there is one,
\* Miss that its key was not cached when it was made.
Made == cur.req # NoReq
Hit == Made /\ cache_key(cur.req) \in DOMAIN cur.found
Miss == Made /\ cache_key(cur.req) \notin DOMAIN cur.found
TriedSrc == [i \in DOMAIN cur.tried |-> cur.tried[i].src]
Failed(i) == cur.tried[i].kind \in {"None", "empty", "raise"}
\* used_count >= daily_budget, for the counts a call found
OverBudget(counts, s) ==
    \/ s = "nsepy" /\ counts[s] >= NsepyBudget
    \/ s = "alpha_vantage" /\ counts[s] >= AlphaVantageBudget
    \/ s = "yfinance" /\ counts[s] >= YfinanceBudget
\* the order of preference, synthetic generator last
Preference == <<"nsepy", "alpha_vantage", "yfinance", "mock">>
Rank(s) == CHOOSE i \in 1..Len(Preference) : Preference[i] = s
\* the sources under budget when the last call was made, in order of preference
UnderBudget == SelectSeq(Preference, LAMBDA s : ~OverBudget(cur.before, s))

\* C1: a call whose key is already in the cache returns the cached series,
\* calls no source, and leaves every count and the cache as they were.
C1_CacheHitFrame ==
    Hit =>
        /\ cur.ret = cur.found[cache_key(cur.req)]
        /\ cur.tried = <<>>
        /\ api_call_counts = cur.before
        /\ cache = cur.found

C1_Witness ==
    /\ Hit
    /\ cur.ret.kind = "frame"
    /\ cur.ret = cache[cache_key(cur.req)]

\* C2 as stated: over two consecutive calls for the same request every count
\* grows by at most one, and the second call is a cache hit.
C2_Original ==
    prev.same =>
        /\ \A s \in SourceNames : api_call_counts[s] - prev.before[s] <= 1
        /\ Hit /\ cur.tried = <<>>

\* C2 amended: over two consecutive calls for the same request every count
\* grows by at most one, and the second call is a cache hit whenever the first
\* one returned a series.
C2_TwiceCountsOnce ==
    prev.same =>
        /\ \A s \in SourceNames : api_call_counts[s] - prev.before[s] <= 1
        /\ prev.ok => (Hit /\ cur.tried = <<>>)

C2_Witness ==
    /\ prev.same /\ prev.ok /\ Hit
    /\ \E s \in SourceNames : api_call_counts[s] - prev.before[s] = 1

Concurrent(t, u) == t # u /\ (u \in loc[t].peers \/ t \in loc[u].peers)

\* C4: of concurrent calls for the same request at most one calls a source,
\* and all of them return the same series.
C4_OneFetchPerKey ==
    \A t, u \in Threads :
        (Concurrent(t, u) /\ loc[t].req = loc[u].req) =>
            /\ ~(loc[t].called # <<>> /\ loc[u].called # <<>>)
            /\ (pc[t] = "done" /\ pc[u] = "done") => loc[t].ret = loc[u].ret

\* C5: under any interleaving no count exceeds its budget.
C5_CountWithinBudget ==
    /\ api_call_counts["nsepy"] <= NsepyBudget
    /\ api_call_counts["alpha_vantage"] <= AlphaVantageBudget
    /\ api_call_counts["yfinance"] <= YfinanceBudget

\* C6: an uncached call returns None exactly when every source was over budget
\* or was called and failed; any other result is a non-empty series.
C6_NoneIffAllFailed ==
    Miss =>
        /\ cur.ret = None <=>
              \A s \in SourceNames :
                  \/ OverBudget(cur.before, s)
                  \/ \E i \in DOMAIN cur.tried : TriedSrc[i] = s /\ Failed(i)
        /\ cur.ret # None => cur.ret.kind = "frame"

C6_Witness ==
    /\ Miss /\ cur.ret = None
    /\ \E s \in SourceNames : OverBudget(cur.before, s)
    /\ \E i \in DOMAIN cur.tried : Failed(i)

\* C7: a source that fails (exception, None, empty frame) does not end the
\* call: the next source under budget is called, and the call returns None
\* only when the last source under budget has failed too.
C7_SoftFailure ==
    Miss =>
        /\ \A i \in DOMAIN cur.tried :
              (Failed(i) /\ \E j \in DOMAIN UnderBudget : Rank(UnderBudget[j]) > Rank(TriedSrc[i]))
              => i < Len(cur.tried)
        /\ (\E i \in DOMAIN cur.tried : ~Failed(i)) => cur.ret.kind = "frame"

C7_Witness ==
    /\ Miss /\ cur.ret.kind = "frame"
    /\ \E i, j, k \in DOMAIN cur.tried :
          /\ cur.tried[i].kind = "raise"
          /\ cur.tried[j].kind = "None"
          /\ cur.tried[k].kind = "empty"

\* C8: when an uncached call succeeds, the count of the source that produced
\* the series grows by one, every other count is unchanged, and the series is
\* in the cache under the key of the request.
C8_SuccessEffect ==
    (Miss /\ cur.ret.kind = "frame") =>
        /\ cur.served = cur.ret.src
        /\ api_call_counts = [cur.before EXCEPT ![cur.served] = @ + 1]
        /\ cache = [k \in DOMAIN cur.found \cup {cache_key(cur.req)} |->
                      IF k = cache_key(cur.req) THEN cur.ret ELSE cur.found[k]]

C8_Witness ==
    /\ Miss /\ cur.ret.kind = "frame"
    /\ Len(cur.tried) > 1
    /\ \E s \in SourceNames : OverBudget(cur.before, s)
    /\ cur.found # <<>>

\* C9: the sources are called in the order of preference, skipping those over
\* budget; the series returned comes from the first of them that yields one,
\* and from the synthetic generator only when every source before it was
\* skipped or failed.
C9_PreferenceOrder ==
    Miss =>
        /\ Len(cur.tried) <= Len(UnderBudget)
        /\ \A i \in DOMAIN cur.tried : TriedSrc[i] = UnderBudget[i]
        /\ \A i \in DOMAIN cur.tried : i < Len(cur.tried) => Failed(i)
        /\ cur.ret.kind = "frame" =>
              /\ cur.tried # <<>>
              /\ cur.ret.src = TriedSrc[Len(cur.tried)]
        /\ (cur.ret.kind = "frame" /\ cur.ret.src = "mock") =>
              \A s \in SourceNames \ {"mock"} :
                  \/ OverBudget(cur.before, s)
                  \/ \E i \in DOMAIN cur.tried : TriedSrc[i] = s /\ Failed(i)

C9_Witness ==
    /\ Miss /\ cur.ret.kind = "frame" /\ cur.ret.src = "mock"
    /\ OverBudget(cur.before, "nsepy")
    /\ Len(cur.tried) = 3

\* The rows of the last simulation from the entry date on, and the first of
\* them on which one of the three exit conditions holds.
Simulated == sim.out # Pending
Rows == SelectSeq(sim.in.daily_data, LAMBDA row : row.datetime.day >= sim.in.entry_date)
HeldOut(i) == Rows[i].datetime.day - sim.in.entry_date >= sim.in.max_holding_days
StopHit(i) == Rows[i].low * 100 <= sim.in.entry_price * (100 - StopLossPct)
TargetHit(i) == Rows[i].high * 100 >= sim.in.entry_price * (100 + TargetProfitPct)
Exits(i) == HeldOut(i) \/ StopHit(i) \/ TargetHit(i)
FirstExit == CHOOSE i \in DOMAIN Rows : Exits(i) /\ \A j \in 1..(i - 1) : ~Exits(j)

\* C10: when the first candle on which an exit condition holds has
\* days_held >= max_holding_days, the trade closes at that candle's close with
\* the max-holding reason, whatever its low and high.
C10_MaxHoldingFirst ==
    (Simulated /\ \E i \in DOMAIN Rows : Exits(i)) =>
        (HeldOut(FirstExit) =>
            /\ sim.out.status = "trade"
            /\ sim.out.exit_reason = <<"Max holding period", sim.in.max_holding_days>>
            /\ sim.out.exit_price = Rows[FirstExit].close * 100
            /\ sim.out.days_held = Rows[FirstExit].datetime.day - sim.in.entry_date)

\* What a closed trade says about where it closed: the row whose days_held it
\* carries, and the four reasons a trade can close with.
Closed == Simulated /\ sim.out.status = "trade"
ClosedAt(i) == Closed /\ sim.out.days_held = Rows[i].datetime.day - sim.in.entry_date
Reasons == {"Max holding period", "Stop Loss", "Target Profit", "End of data"}

\* _simulate_trade returns None on every input: no call closes a trade.
NeverCloses == Simulated => sim.out = NoResult

\* C11: on a candle whose low is at or below the stop price and whose high is
\* at or above the target price the trade is never closed with the target
\* reason; closed there for a price reason, it is Stop Loss at the stop price.
C11_StopBeforeTarget ==
    \A i \in DOMAIN Rows :
        (StopHit(i) /\ TargetHit(i) /\ ClosedAt(i)) =>
            /\ sim.out.exit_reason[1] # "Target Profit"
            /\ sim.out.exit_reason[1] \in {"Stop Loss", "Target Profit"} =>
                  /\ sim.out.exit_reason[1] = "Stop Loss"
                  /\ sim.out.exit_price = sim.in.entry_price * (100 - StopLossPct)

\* C12: a simulation over a series with a candle from the entry date on ends
\* with the trade closed, with one of the four reasons, at the first candle on
\* which an exit condition holds (the last candle when none does).
C12_ClosesOnceAtFirstExit ==
    (Simulated /\ Rows # <<>>) =>
        /\ Closed
        /\ sim.out.exit_reason[1] \in Reasons
        /\ IF \E i \in DOMAIN Rows : Exits(i)
           THEN ClosedAt(FirstExit) /\ sim.out.exit_reason[1] # "End of data"
           ELSE ClosedAt(Len(Rows))

\* C13: when no exit condition holds on any candle from the entry date on, the
\* trade closes at the close of the last candle with the end-of-data reason.
C13_EndOfData ==
    (Simulated /\ Rows # <<>> /\ \A i \in DOMAIN Rows : ~Exits(i)) =>
        /\ Closed
        /\ sim.out.exit_reason[1] = "End of data"
        /\ sim.out.exit_price = Rows[Len(Rows)].close * 100

\* C15: a trade outcome has a positive entry price and pnl = exit_price -
\* entry_price (pnl_pct is pnl * 100 / entry_price, so that
\* pnl_pct * entry_price = pnl * 100).
C15_PnlOfOutcome ==
    Closed =>
        /\ sim.out.entry_price > 0
        /\ sim.out.pnl = sim.out.exit_price - sim.out.entry_price
        /\ sim.out.pnl_pct.num = sim.out.pnl * 100
        /\ sim.out.pnl_pct.den = sim.out.entry_price

\* The last call of get_hourly_data_for_entry: the candles of its frame at or
\* after the entry timestamp, those before it, and those at or before the
\* entry timestamp cut to the hour.
EntryDone == entry.out # Pending
NoSeries == entry.in.df.kind = "None" \/ entry.in.df.rows = <<>>
EntryStamp == entry.in.entry_datetime.hour * 60 + entry.in.entry_datetime.minute
CandleStamp(c) == c.datetime.hour * 60 + c.datetime.minute
AtOrAfter == SelectSeq(entry.in.df.rows, LAMBDA c : CandleStamp(c) >= EntryStamp)
Before == SelectSeq(entry.in.df.rows, LAMBDA c : CandleStamp(c) < EntryStamp)
UpToHour == SelectSeq(entry.in.df.rows,
                      LAMBDA c : c.datetime.hour <= entry.in.entry_datetime.hour)

\* C14 as stated: the entry price is the open of the first candle at or after
\* the entry timestamp, the close of the last candle before it when there is
\* none, and the call fails when the series is empty.
C14_Original ==
    EntryDone =>
        IF NoSeries THEN entry.out = NoResult
        ELSE /\ entry.out.status = "entry"
             /\ entry.out.entry_price =
                    IF AtOrAfter # <<>> THEN AtOrAfter[1].open
                    ELSE Before[Len(Before)].close

\* C14 amended: the entry price is the open of the last candle at or before
\* the entry timestamp cut to the hour, the open of the last candle of the
\* series when there is none, and the call fails when the series is missing,
\* empty, or timezone-aware.
C14_EntryAtOrBefore ==
    EntryDone =>
        IF NoSeries \/ entry.in.df.tz = "aware" THEN entry.out = NoResult
        ELSE /\ entry.out.status = "entry"
             /\ entry.out.entry_price =
                    IF UpToHour # <<>> THEN UpToHour[Len(UpToHour)].open
                    ELSE entry.in.df.rows[Len(entry.in.df.rows)].open

C14_Witness ==
    /\ EntryDone /\ entry.out # NoResult
    /\ entry.in.entry_datetime.minute = 30
    /\ Before # <<>> /\ AtOrAfter # <<>>
    /\ entry.out.entry_price = Before[Len(Before)].open
    /\ entry.out.entry_price # AtOrAfter[1].open

\* The last call of run_backtest: its rows, the rows for which the data client
\* gave no entry data or no daily data (or the frame had no entry_datetime),
\* and the records its logger got at WARNING or above, the failure log.
RunDone == bt.out # Pending /\ bt.out # NoResult
Signals == bt.in.rows
MustFail(i) ==
    \/ ~bt.in.has_entry_datetime
    \/ Signals[i].hourly.kind = "None"
    \/ Signals[i].daily.kind = "None"
    \/ Signals[i].daily.rows = <<>>
FailureLog == bt.out.log

\* C16: run_backtest returns whatever fails; every row is processed, in
\* order; a row without entry data or daily data gives no outcome and is
\* counted in failed_trades, and the two counts add up to the number of rows.
C16_FailuresIsolated ==
    RunDone =>
        /\ bt.out.status = "returned"
        /\ bt.out.processed = [i \in DOMAIN Signals |-> i]
        /\ bt.out.successful_trades = Len(bt.out.results)
        /\ bt.out.successful_trades + bt.out.failed_trades = Len(Signals)
        /\ bt.out.failed_trades >= Cardinality({i \in DOMAIN Signals : MustFail(i)})

C16_Witness ==
    /\ RunDone /\ Len(Signals) = 2
    /\ Signals[1].hourly.kind = "None"
    /\ ~MustFail(2)
    /\ bt.out.processed = <<1, 2>>
    /\ bt.out.failed_trades = 2
    /\ \E k \in DOMAIN FailureLog : FailureLog[k].line = 175

\* C17: after a run the failure log has one entry, with the symbol, for each
\* row that produced no outcome, and no other entry.
C17_FailureLogComplete ==
    RunDone =>
        /\ Len(FailureLog) = Len(Signals) - Len(bt.out.results)
        /\ \A k \in DOMAIN FailureLog :
              \E i \in DOMAIN Signals : FailureLog[k].symbol = Signals[i].stock_name
        /\ bt.out.results = <<>> =>
              [k \in DOMAIN FailureLog |-> FailureLog[k].symbol]
                  = [i \in DOMAIN Signals |-> Signals[i].stock_name]

\* C19: the outcomes are in the order of the rows they come from: some
\* increasing choice of rows has the symbols of the outcomes, one by one.
C19_ResultsInInputOrder ==
    RunDone =>
        \E f \in [DOMAIN bt.out.results -> DOMAIN Signals] :
            /\ \A j, k \in DOMAIN f : j < k => f[j] < f[k]
            /\ \A k \in DOMAIN f : bt.out.results[k].symbol = Signals[f[k]].stock_name

\* run_backtest returns no outcome on any frame of trades.
NoOutcomeEver == RunDone => bt.out.results = <<>>

\* The last request served by the application, when it asked for a run.
RunRequested == app.last.route = "run_backtest"
Rejected == app.resp.status >= 400

\* C18: a run requested while no credentials are stored (app.py) or the client
\* is missing or not authenticated (app_backup.py) is answered with an error,
\* processes no trade and leaves the stored results as they were; when data is
\* uploaded and the request has its parameters, the error is the 400 that
\* names the missing configuration.
C18_RunRejectedUnconfigured ==
    (RunRequested /\ ~app.last.configured) =>
        /\ Rejected
        /\ app.last.processed = <<>>
        /\ app.backtest_results = app.last.backtest_results
        /\ (app.last.uploaded_data # NoData /\ app.last.json = "params") =>
              /\ app.resp.status = 400
              /\ app.resp.body \in {"No credentials found", "Kite Connect not authenticated"}

C18_Witness ==
    /\ RunRequested /\ ~app.last.configured
    /\ app.program = "app"
    /\ app.last.uploaded_data # NoData /\ app.last.uploaded_data.rows # <<>>
    /\ app.resp = Response(400, "No credentials found")

\* C20: every call of the synthetic generator for a request returns the series
\* that the first call ever made for that request returned, in whatever run
\* of the program and after whatever other calls.
C20_MockDeterministic ==
    (mock.last.req # NoReq /\ cache_key(mock.last.req) \in DOMAIN mock.seen) =>
        mock.last.rows = mock.seen[cache_key(mock.last.req)]

\* Within one process the series is regenerated identically: the generator is
\* reseeded at every call.
SameSeriesInProcess ==
    [][(mock'.hashseed = mock.hashseed /\ mock.last.req # NoReq
        /\ mock'.last.req = mock.last.req) => mock'.last.rows = mock.last.rows]_vars


\* ------------------------------------------------ C21: the synthetic flag
\* a series of the synthetic generator, returned by the last call
Synthetic == Made /\ cur.ret.kind = "frame" /\ cur.ret.src = "mock"

\* C21: every series that originates from the synthetic generator carries a
\* synthetic flag to the caller of get_historical_data, also when it is
\* served from the cache.
C21_SyntheticFlagged ==
    Synthetic => "synthetic" \in columns(cur.ret)


\* ------------------------------------------- C22: the candle invariant
\* timestamps strictly increasing, and every candle's high and low bracket
\* its open and its close
CandleSeriesInvariant(rows) ==
    /\ \A i, j \in DOMAIN rows : i < j => rows[i].datetime < rows[j].datetime
    /\ \A i \in DOMAIN rows :
         /\ rows[i].high >= rows[i].open /\ rows[i].high >= rows[i].close
         /\ rows[i].low <= rows[i].open /\ rows[i].low <= rows[i].close

\* C22: every series a provider returns, the synthetic and the resampled
\* ones included, has strictly increasing timestamps and candles whose high
\* is at least max(open, close) and whose low is at most min(open, close).
C22_CandleSeriesInvariant ==
    /\ CandleSeriesInvariant(mock.last.rows)
    /\ CandleSeriesInvariant(mock.hourly)

\* The resampled series do satisfy it: lines 316-317 repair high and low.
ResampledWellFormed == CandleSeriesInvariant(mock.hourly)
\* The synthetic series fail it on the open only: high and low bracket the close.
SyntheticBracketsClose ==
    \A i \in DOMAIN mock.last.rows :
        /\ mock.last.rows[i].low <= mock.last.rows[i].close
        /\ mock.last.rows[i].close <= mock.last.rows[i].high


\* ------------------------------------------- C23: exit after a fixed hold
ExitDone == exitp.out # Pending /\ exitp.in.client # ""
\* the day entry_date + max_holding_days
ExitDay == exitp.in.entry_day + exitp.in.holding_days
\* the daily candles there are of the symbol: the vendor's, or the ones the
\* provider generates from the entry day to the exit day
Candles ==
    IF exitp.in.client = "kite"
    THEN {daily_candle(d) : d \in exitp.in.days}
    ELSE LET df == provider_get_historical_data(exitp.in, exitp.in.entry_day, ExitDay)
         IN  {[datetime |-> df.rows[i].date, open |-> df.rows[i].Open,
               close |-> df.rows[i].Close] : i \in DOMAIN df.rows}
OnOrAfter == {c \in Candles : c.datetime >= At(ExitDay, 0)}
FirstOnOrAfter == CHOOSE c \in OnOrAfter : \A x \in OnOrAfter : c.datetime <= x.datetime
LastAvailable == CHOOSE c \in Candles : \A x \in Candles : x.datetime <= c.datetime

\* C23: with only the holding period configured, the exit price is the open
\* of the first candle on or after entry_date + max_holding_days, and the
\* last available close when there is no such candle.
C23_ExitAtOpenOrLastClose ==
    (ExitDone /\ exitp.in.auth /\ Candles # {}) =>
        exitp.out = IF OnOrAfter # {} THEN Price(FirstOnOrAfter.open)
                    ELSE Price(LastAvailable.close)

\* The part of it the code does keep: a price returned by the vendor client
\* from daily candles is the open of the first candle on or after the exit day.
KiteDailyExitIsOpen ==
    (ExitDone /\ exitp.in.client = "kite" /\ ~exitp.in.minute
       /\ exitp.out # NoResult) =>
        OnOrAfter # {} /\ exitp.out = Price(FirstOnOrAfter.open)


\* ------------------------------------------------- C24: the flat series
\* C24: with max_holding_days = 5, the stop and the target left alone, and a
\* series that stays at the entry price, the trade closes with pnl_pct = 0.
C24_FlatSeriesBreaksEven ==
    (Simulated /\ sim.in \in FlatInputs) =>
        /\ Closed
        /\ sim.out.pnl_pct.num = 0


\* --------------------------------------------- C25-C29: the summary
\* The last call of calculate_metrics: its frame, in listed order, and the
\* summary it returned.
MetricsDone == met.out \notin {Pending, NoResult}
Listed == met.in
Summarised == MetricsDone /\ Listed # <<>>
Count(P(_)) == Cardinality({i \in DOMAIN Listed : P(Listed[i])})
\* x is num / den rounded to the nearest unit
Nearest(x, num, den) ==
    LET diff == x * den - num
        mag(y) == IF y < 0 THEN 0 - y ELSE y
    IN  2 * mag(diff) <= mag(den)

\* calculate_metrics of an empty frame is the empty summary: it does not raise.
MetricsTotalOnEmpty ==
    (MetricsDone /\ Listed = <<>>) => met.out = EmptySummary

\* C26: for a non-empty list, total is its length, winning the number of
\* outcomes with pnl_pct > 0, losing the number with pnl_pct < 0 (break-even
\* outcomes are in neither), and win_rate = winning / total * 100.
C26_Counts ==
    Summarised =>
        /\ met.out.total_trades = Len(Listed)
        /\ met.out.winning_trades = Count(LAMBDA t : t.pnl_pct > 0)
        /\ met.out.losing_trades = Count(LAMBDA t : t.pnl_pct < 0)
        /\ Nearest(met.out.win_rate, met.out.winning_trades * 10000, Len(Listed))

\* What the code counts as losing: every outcome that is not winning.
LosingIsNotWinning ==
    Summarised =>
        /\ met.out.winning_trades = Count(LAMBDA t : t.pnl_pct > 0)
        /\ met.out.losing_trades = Count(LAMBDA t : t.pnl_pct <= 0)

\* cumulative pnl after the first k outcomes, its maximum up to there, and the
\* highest it ever was
RECURSIVE Cumulative(_)
Cumulative(k) == IF k = 0 THEN 0 ELSE Cumulative(k - 1) + Listed[k].pnl
PrefixMax(k) ==
    CHOOSE x \in {Cumulative(j) : j \in 1..k} : \A j \in 1..k : Cumulative(j) <= x
Peak == PrefixMax(Len(Listed))
Drawdowns == {Cumulative(k) - PrefixMax(k) : k \in DOMAIN Listed}

\* C27: max_drawdown is the minimum over the prefixes, in listed order, of
\* cumulative pnl less its prefix maximum; max_drawdown_pct is max_drawdown /
\* peak * 100 (to 2 decimals), and 0 when the peak is 0.
C27_Drawdown ==
    Summarised =>
        /\ met.out.max_drawdown \in Drawdowns
        /\ \A d \in Drawdowns : met.out.max_drawdown <= d
        /\ Peak = 0 => met.out.max_drawdown_pct = 0
        /\ Peak # 0 => Nearest(met.out.max_drawdown_pct,
                              met.out.max_drawdown * 10000, Peak)

\* a list that falls back from a peak above 0 after a later, higher one is
\* still to come
C27_Witness ==
    /\ Summarised
    /\ met.out.max_drawdown < 0
    /\ Peak > 0
    /\ \E k \in DOMAIN Listed : PrefixMax(k) < Peak /\ Cumulative(k) < PrefixMax(k)

\* the outcomes of the example: pnl_pct +10, -5, +3, in this order
Example ==
    /\ MetricsDone
    /\ [i \in DOMAIN Listed |-> Listed[i].pnl_pct] = <<1000, -500, 300>>

\* C28: over outcomes with pnl_pct +10, -5, +3 the summary has win_rate
\* 66.67, total return 8, average return 2.67, best 10 and worst -5.
C28_Example ==
    Example =>
        /\ met.out.win_rate = 6667
        /\ met.out.total_pnl = 800
        /\ met.out.avg_pnl_pct = 267
        /\ met.out.best_trade = 1000
        /\ met.out.worst_trade = -500

\* The figures of the example the summary does have, and its only total: the
\* sum of pnl in money.
ExampleWithoutTotal ==
    Example =>
        /\ met.out.win_rate = 6667
        /\ met.out.avg_pnl_pct = 267
        /\ met.out.best_trade = 1000
        /\ met.out.worst_trade = -500
        /\ met.out.total_pnl = Cumulative(Len(Listed))

\* the reason code of an outcome, and the outcomes closed for it
ReasonCode(t) == t.exit_reason[1]
\* the counts of the histogram, added up
RECURSIVE Total(_, _)
Total(hist, keys) ==
    IF keys = {} THEN 0
    ELSE LET k == CHOOSE x \in keys : TRUE IN hist[k] + Total(hist, keys \ {k})

\* C29: the histogram counts outcomes per reason code: an outcome falls under
\* a key that depends on its reason code only, not on a parameter of the
\* policy or on the days it was held, the codes are the four enumerated ones,
\* and the counts add up to the number of outcomes.
C29_HistogramByReasonCode ==
    Summarised =>
        LET hist == met.out.exit_reasons IN
        /\ \A i \in DOMAIN Listed :
              /\ ReasonCode(Listed[i]) \in Reasons
              /\ Listed[i].exit_reason \in DOMAIN hist
              /\ hist[Listed[i].exit_reason] =
                    Count(LAMBDA t : ReasonCode(t) = ReasonCode(Listed[i]))
        /\ Total(hist, DOMAIN hist) = Len(Listed)

\* What does hold of the histogram: one key for each distinct reason string,
\* counts that add up.
HistogramByReasonString ==
    Summarised =>
        LET hist == met.out.exit_reasons IN
        /\ DOMAIN hist = {Listed[i].exit_reason : i \in DOMAIN Listed}
        /\ \A k \in DOMAIN hist : hist[k] = Count(LAMBDA t : t.exit_reason = k)
        /\ Total(hist, DOMAIN hist) = Len(Listed)


\* -------------------------------------- C25: a run without an outcome
\* a run requested with a file uploaded, its parameters given and a provider
\* configured, of which no outcome came
EmptyRun ==
    /\ RunRequested
    /\ app.last.uploaded_data # NoData
    /\ app.last.json = "params"
    /\ app.last.configured
    /\ app.backtest_results.rows = <<>>

\* C25: calculate_metrics over an empty list returns the empty summary and
\* does not raise, and /run_backtest answers with success when every trade
\* of the run failed.
C25_TotalOnEmpty ==
    /\ MetricsTotalOnEmpty
    /\ EmptyRun => app.resp.status = 200

\* No request to /run_backtest is answered with success, in either program.
NoRunSucceeds == RunRequested => Rejected

\* ------------------------------------------- C30: runs in one process
\* C30: with the runs of two sessions interleaved in one process, a run
\* finds and simulates only the upload of its own session, exports only its
\* own results, and an upload does not replace another session's.
C30_NoCrossRunState ==
    /\ (RunRequested /\ app.last.uploaded_data # NoData) =>
           app.last.uploaded_by = app.last.session
    /\ (app.last.route = "export_results" /\ app.last.backtest_results # NoData) =>
           app.last.results_by = app.last.session
    /\ (app.last.route = "upload" /\ app.last.uploaded_data # NoData
          /\ app.resp.status = 200) =>
           app.last.uploaded_by = app.last.session

\* Nothing is ever there to export: backtest_results stays None.
NothingToExport ==
    app.last.route = "export_results" => app.resp.status = 400

\* ------------------------------------------- C31: the spellings of a symbol
\* The calls of Yahoo Finance the last request made that came back (with a
\* frame or with None).
YfinanceTried ==
    {i \in DOMAIN cur.tried :
        cur.tried[i].src = "yfinance" /\ cur.tried[i].kind # "raise"}

CountsSum(counts) ==
    counts["nsepy"] + counts["alpha_vantage"] + counts["yfinance"] + counts["mock"]

\* C31: the provider asks for its spellings in the order of its list and
\* stops at the first that yields a non-empty frame, whose series it returns
\* (None when none does, after all five); the router does not see the
\* spellings: whether one or five were asked for, a request Yahoo Finance
\* serves adds one to its count and nothing to any other.
C31_SpellingsPrivate ==
    \A i \in YfinanceTried :
        LET f == cur.tried[i].formats
            fmts == symbol_formats(cur.req.symbol)
            n == Len(f)
        IN /\ n \in 1..Len(fmts)
           /\ \A j \in 1..n : f[j].fmt = fmts[j]
           /\ \A j \in 1..(n - 1) : f[j].kind # "frame"
           /\ IF cur.tried[i].kind = "frame"
              THEN /\ f[n].kind = "frame"
                   /\ cur.served = "yfinance"
                   /\ cur.ret = Frame("yfinance", f[n].ver)
                   /\ api_call_counts =
                        [cur.before EXCEPT !["yfinance"] = @ + 1]
              ELSE /\ n = Len(fmts)
                   /\ f[n].kind # "frame"
                   /\ cur.served # "yfinance"
                   /\ api_call_counts["yfinance"] = cur.before["yfinance"]
                   /\ CountsSum(api_call_counts) <= CountsSum(cur.before) + 1

\* Yahoo Finance served after three spellings failed, one with an exception
\* and one with an empty frame, and one fetch was counted.
C31_Witness ==
    /\ cur.served = "yfinance"
    /\ \E i \in YfinanceTried :
          LET f == cur.tried[i].formats IN
          /\ Len(f) = 4
          /\ f[1].kind = "raise"
          /\ f[2].kind = "empty"
          /\ f[4].kind = "frame"
    /\ api_call_counts["yfinance"] = cur.before["yfinance"] + 1

\* ------------------------------------------- C32: the accounts of a run
\* The counters of run_backtest after the first k rows of the frame: a row
\* is processed without regard to the rows after it.
AfterRows(k) == run_loop([bt.in EXCEPT !.rows = SubSeq(@, 1, k)], 1, NoRunOut)

\* C32: at every point of the loop of run_backtest the outcomes recorded and
\* the trades counted as failed add up to the rows processed so far, a row
\* adds at most one outcome, and at the end the two add up to the number of
\* rows of the frame.
C32_Accounting ==
    RunDone =>
        /\ \A k \in 0..Len(Signals) :
              LET st == AfterRows(k) IN
              /\ Len(st.processed) = k
              /\ Len(st.results) + st.failed_trades = k
              /\ st.successful_trades = Len(st.results)
              /\ k > 0 => Len(st.results) - Len(AfterRows(k - 1).results) \in {0, 1}
        /\ AfterRows(Len(Signals)).results = bt.out.results
        /\ AfterRows(Len(Signals)).failed_trades = bt.out.failed_trades
        /\ Len(bt.out.results) + bt.out.failed_trades = Len(Signals)

\* A run over two rows of a frame without the entry_datetime column: each
\* raises in the loop and is counted as failed.
C32_Witness ==
    /\ RunDone /\ Len(Signals) = 2
    /\ ~bt.in.has_entry_datetime
    /\ AfterRows(1).failed_trades = 1
    /\ bt.out.failed_trades = 2
    /\ bt.out.results = <<>>

\* --------------------------------------------- C33: the holding limit
\* C33: a closed trade has 0 <= days_held <= max_holding_days; closed with
\* the holding reason it has days_held = max_holding_days, closed at the stop
\* or at the target it has days_held < max_holding_days, whatever days the
\* series has candles on.
C33_HeldWithinLimit ==
    Closed =>
        /\ sim.out.days_held \in 0..sim.in.max_holding_days
        /\ sim.out.exit_reason[1] = "Max holding period" =>
              sim.out.days_held = sim.in.max_holding_days
        /\ sim.out.exit_reason[1] \in {"Stop Loss", "Target Profit"} =>
              sim.out.days_held < sim.in.max_holding_days

\* -------------------------------------------- C34: no look-ahead at entry
\* the candles of the frame whose open is the entry price returned (the opens
\* of a frame differ from candle to candle)
EntryCandles ==
    {i \in DOMAIN entry.in.df.rows :
        entry.in.df.rows[i].open = entry.out.entry_price}

\* C34: the candle whose price is the entry price is never later than the
\* first candle at or after the entry timestamp; with no candle at or before
\* the entry hour, it is not the latest candle of the frame when that one
\* comes after the first.
C34_NoLookAhead ==
    (EntryDone /\ entry.out # NoResult /\ AtOrAfter # <<>>) =>
        \A i \in EntryCandles :
            AsMinutes(entry.in.df.rows[i].datetime) <= AsMinutes(AtOrAfter[1].datetime)

\* Where the frame has a candle at or before the entry hour, the candle used
\* is not after the entry timestamp.
NoLookAheadWithEarlierCandle ==
    (EntryDone /\ entry.out # NoResult /\ UpToHour # <<>>) =>
        \A i \in EntryCandles :
            AsMinutes(entry.in.df.rows[i].datetime) <= AsMinutes(entry.in.entry_datetime)

\* ------------------------------------- C35: counts and cache entries
\* C35: in sequential use the counts of the sources add up to the number of
\* cache entries.  A successful uncached call adds one count and one entry;
\* a cache hit and a failed call add neither; a failed call leaves its key
\* out of the cache, so that the same request made again calls the sources.
C35_CountsMatchEntries ==
    /\ CountsSum(api_call_counts) = Cardinality(DOMAIN cache)
    /\ (Miss /\ cur.ret.kind = "frame") =>
          /\ CountsSum(api_call_counts) = CountsSum(cur.before) + 1
          /\ DOMAIN cache = DOMAIN cur.found \cup {cache_key(cur.req)}
    /\ (Hit \/ (Miss /\ cur.ret.kind # "frame")) =>
          /\ api_call_counts = cur.before
          /\ cache = cur.found
    /\ (Miss /\ cur.ret.kind # "frame") => cache_key(cur.req) \notin DOMAIN cache
    /\ (Made /\ prev.same /\ ~prev.ok) => (Miss /\ cur.tried # <<>>)

\* A request that failed is made again and the sources are called again,
\* with two series already counted and cached.
C35_Witness ==
    /\ Made /\ prev.same /\ ~prev.ok
    /\ cur.tried # <<>> /\ cur.ret.kind # "frame"
    /\ Cardinality(DOMAIN cache) = 2
    /\ CountsSum(api_call_counts) = 2

\* ------------------------------------------- C36: the cache only grows
\* C36: once a key is cached its entry stays, with the series first stored:
\* no later call of get_historical_data and no write of _simulate_trade to
\* the series it was handed removes, replaces or changes it, and a later hit
\* on the key returns that series.
C36_CacheMonotonic ==
    [][/\ \A k \in DOMAIN cache : k \in DOMAIN cache' /\ cache'[k] = cache[k]
       /\ (cur'.req # NoReq /\ cache_key(cur'.req) \in DOMAIN cache
             /\ (cur'.req # cur.req \/ ~cur'.consumed)) =>
              cur'.ret = cache[cache_key(cur'.req)]]_vars

\* A request is served and cached, _simulate_trade is handed its series, and
\* the same request made again is a hit that returns the series in the cache,
\* with another key cached as well.
C36_Witness ==
    /\ Hit
    /\ prev.same /\ prev.consumed
    /\ cur.ret = cache[cache_key(cur.req)]
    /\ cur.ret.kind = "frame"
    /\ Cardinality(DOMAIN cache) >= 2

\* ------------------------------------- C37: the results after the charts
\* the summary and the two charts have been computed
ChartsDone == met.returns_distribution \notin {Pending, NoResult}

\* C37: after calculate_metrics, generate_equity_curve and
\* generate_returns_distribution the frame of results is as the simulator
\* produced it: the same rows, with the same columns and values.
C37_ResultsUntouched == ChartsDone => met.frame = met.in

\* What the calls do leave alone: an empty frame, and in any frame the number
\* of rows and the columns the simulator produced; calculate_metrics alone
\* writes nothing.  The one column added is cumulative_pnl.
ResultsKeptButForCumulativePnl ==
    /\ (MetricsDone /\ met.equity_curve = Pending) => met.frame = met.in
    /\ ChartsDone =>
          /\ Len(met.frame) = Len(met.in)
          /\ \A i \in DOMAIN met.in :
                /\ DOMAIN met.frame[i] = DOMAIN met.in[i] \cup {"cumulative_pnl"}
                /\ \A c \in DOMAIN met.in[i] : met.frame[i][c] = met.in[i][c]

\* ------------------------------------------------ C39: the login methods
\* the last call on the client, and the login posts it sent, by method
LoggedIn == smart.last.op = "login"
LoginPosts ==
    SelectSeq(smart.c.sent, LAMBDA q : q.url = "loginByPassword")
MethodsTried == [k \in DOMAIN LoginPosts |-> LoginPosts[k].method]
Succeeded(i) == smart.last.answers[i] = "tokens"

\* the parts of C39 that do not depend on what a failing method leaves
LoginInOrder ==
    /\ LoggedIn =>
          /\ ~smart.last.before.credentials =>
                (~smart.last.ret /\ smart.c.sent = <<>>)
          /\ smart.last.before.credentials =>
                /\ MethodsTried # <<>>
                /\ MethodsTried = [k \in DOMAIN MethodsTried |-> k]
                /\ \A k \in DOMAIN MethodsTried :
                      k < Len(MethodsTried) => ~Succeeded(k)
                /\ smart.last.ret = Succeeded(Len(MethodsTried))
                /\ ~smart.last.ret => Len(MethodsTried) = NumAuthMethods
          /\ smart.last.ret <=> \E i \in 1..NumAuthMethods : Succeeded(i) /\ smart.last.before.credentials
          /\ smart.last.ret => smart.c.access_token = Len(MethodsTried)
    /\ \A k \in DOMAIN smart.c.sent :
          smart.c.sent[k].url = "getCandleData" => smart.c.sent[k].access_token # 0

\* C39: login tries its methods in the order 1, 2, 3 and stops at the first
\* that succeeds; it returns True exactly when one did; only a method that
\* succeeds stores tokens, so that a login that fails leaves access_token as
\* it was; without its credentials it returns False and sends nothing; and
\* get_historical_data sends no candle request with access_token unset.
C39_Login ==
    /\ LoginInOrder
    /\ (LoggedIn /\ ~smart.last.ret) =>
          smart.c.access_token = smart.last.before.access_token

\* A failing login leaves access_token as it was unless an answer carried
\* jwtToken without the other tokens.
FailedLoginKeepsToken ==
    (LoggedIn /\ ~smart.last.ret
       /\ \A i \in 1..NumAuthMethods : smart.last.answers[i] # "jwt only") =>
        smart.c.access_token = smart.last.before.access_token

====
